---- MODULE Spec2Model ----
(***************************************************************************)
(* ProfilePilot: the storage layer (MemStorage and DatabaseStorage, both   *)
(* implementing IStorage) and the REST routes of server/storage.ts and     *)
(* server/routes.ts, as a state machine over the relational rows.          *)
(***************************************************************************)
EXTENDS Integers, FiniteSets, Sequences, TLC

\* ------------------------------------------------------------------ bounds
\* Largest id a table's id counter (MemStorage current*Id, Postgres serial)
\* hands out in a behaviour.
MaxId == 3

\* ------------------------------------------------------------------- state
VARIABLES
    impl,                 \* "mem" (MemStorage) or "db" (DatabaseStorage)
    users,                \* rows of table users
    profiles,             \* rows of table profiles
    leadGenAssignments,   \* rows of table lead_gen_assignments
    salesAssignments,     \* rows of table sales_assignments
    targets,              \* rows of table targets
    progressUpdates,      \* rows of table progress_updates
    leadEntries,          \* rows of table lead_entries
    nextId,               \* per table: the next id the counter / serial gives
    ret,                  \* the last IStorage call: arguments, result, pre-state
    resp,                 \* the last HTTP exchange: route, requester, status
    inflight              \* calls suspended at an await, with their locals

tables == <<users, profiles, leadGenAssignments, salesAssignments, targets,
            progressUpdates, leadEntries>>
store == <<tables, nextId, inflight>>
vars == <<impl, store, ret, resp>>

TableNames == {"users", "profiles", "leadGen", "sales", "targets", "progress", "leads"}

\* ----------------------------------------------------------------- helpers
Ids(rows) == {r.id : r \in rows}
UserIds == Ids(users)
ProfileIds == Ids(profiles)

\* Array.prototype.find over a Map's values: the Map iterates in insertion
\* order and ids are handed out increasingly, so the first match is the one
\* with the smallest id. The result is a set: empty for undefined.
First(rows) == {r \in rows : \A q \in rows : r.id <= q.id}

\* `select ... limit 1` without ORDER BY: any one of the matching rows.
AnyOne(rows) == IF rows = {} THEN {{}} ELSE {{r} : r \in rows}

Bump(t) == [nextId EXCEPT ![t] = @ + 1]

\* JSON values of request bodies and of text columns: a type tag with the
\* number or the text. "undef" is an absent property.
Str(s) == [t |-> "str", n |-> 0, s |-> s]
Num(n) == [t |-> "num", n |-> n, s |-> ""]
Undef == [t |-> "undef", n |-> 0, s |-> ""]
Null == [t |-> "null", n |-> 0, s |-> ""]
Bool(b) == [t |-> "bool", n |-> IF b THEN 1 ELSE 0, s |-> ""]
\* A date as the text the client sends; n is the day it names.
DateStr(d) == [t |-> "str", n |-> d, s |-> "date"]

\* ---------------------------------------------------------------- passwords
\* The text of users.password: a text without a dot, or the
\* "<hex of the key>.<salt>" that hashPassword makes. scrypt is taken to be
\* free of collisions: the key stands for the password and salt it is of.
PlainText(s) == [dot |-> FALSE, hashed |-> <<>>, salt |-> 0, text |-> s]
scrypt(password, salt) == <<password, salt>>
hashPassword(password, salt) ==
    [dot |-> TRUE, hashed |-> scrypt(password, salt), salt |-> salt, text |-> ""]

\* comparePasswords: false for a stored text without a dot; else the key of
\* the supplied password under the stored salt is compared with the stored
\* key.
comparePasswords(supplied, stored) ==
    IF ~stored.dot THEN FALSE
    ELSE scrypt(supplied, stored.salt) = stored.hashed

\* ----------------------------------------------------------- default rows
DefaultPassword == "password123"
\* initializeDefaultUsers: five users, ids 1..5 in creation order.
DefaultUsers(managerName) ==
    { [id |-> 1, username |-> managerName, role |-> "manager",
        password |-> PlainText(DefaultPassword)],
      [id |-> 2, username |-> "leadgen1", role |-> "lead_gen",
        password |-> PlainText(DefaultPassword)],
      [id |-> 3, username |-> "leadgen2", role |-> "lead_gen",
        password |-> PlainText(DefaultPassword)],
      [id |-> 4, username |-> "sales1", role |-> "sales",
        password |-> PlainText(DefaultPassword)],
      [id |-> 5, username |-> "sales2", role |-> "sales",
        password |-> PlainText(DefaultPassword)] }

\* initializeDefaultProfiles: five profiles, ids 1..5, each with a name, a
\* description and a resume text.
DefaultProfiles ==
    { [id |-> i, name |-> Str("name"), description |-> Str("descr"),
       resumeContent |-> Str("cv"), resumeBuffer |-> Null] : i \in 1..5 }

NoCall == [op |-> "none", impl |-> "none", userId |-> 0, profileId |-> 0, id |-> 0,
           threw |-> FALSE, ok |-> FALSE, rows |-> {}, pre |-> {}, preProfiles |-> {}]
NoResp == [route |-> "none", requester |-> 0, role |-> "none", guard |-> {},
           status |-> 0, ranHandler |-> FALSE, bodyValid |-> TRUE, dbThrew |-> FALSE]

\* MemStorage's constructor fills users and profiles; DatabaseStorage starts
\* on the database holding the default users and empty other tables.
InitMem ==
    /\ impl = "mem"
    /\ users = DefaultUsers("manager")
    /\ profiles = DefaultProfiles
    /\ nextId = [t \in TableNames |->
                    IF t \in {"users", "profiles"} THEN 6 ELSE 1]

InitDb ==
    /\ impl = "db"
    /\ users = DefaultUsers("manager1")
    /\ profiles = {}
    /\ nextId = [t \in TableNames |-> IF t = "users" THEN 6 ELSE 1]

Init ==
    /\ InitMem \/ InitDb
    /\ leadGenAssignments = {}
    /\ salesAssignments = {}
    /\ targets = {}
    /\ progressUpdates = {}
    /\ leadEntries = {}
    /\ ret = NoCall
    /\ resp = NoResp
    /\ inflight = {}

\* The record of an IStorage call, for the properties to read.
Call(op, u, p, i, threw, ok, rows, pre) ==
    [op |-> op, impl |-> impl, userId |-> u, profileId |-> p, id |-> i,
     threw |-> threw, ok |-> ok, rows |-> rows, pre |-> pre, preProfiles |-> profiles]

\* Foreign keys of the relational schema: user_id references users.id and
\* profile_id references profiles.id. Postgres rejects a row that breaks one.
FkOk(u, p) == u \in UserIds /\ p \in ProfileIds

\* ------------------------------------------------- lead-gen assignments
\* A lookup that compares the wrong column.
MemGetLeadGenAssignment_ByProfile(u) ==
    First({a \in leadGenAssignments : a.profileId = u})

MemGetLeadGenAssignment(u) == First({a \in leadGenAssignments : a.userId = u})

MemCreateLeadGenAssignment(u, p) ==
    LET existing == MemGetLeadGenAssignment(u) IN
    IF existing # {}
    THEN LET e == CHOOSE a \in existing : TRUE
             upd == [e EXCEPT !.profileId = p] IN
         /\ leadGenAssignments' = (leadGenAssignments \ {e}) \cup {upd}
         /\ nextId' = nextId
         /\ ret' = Call("createLeadGenAssignment", u, p, 0, FALSE, TRUE, {upd},
                        leadGenAssignments)
    ELSE LET new == [id |-> nextId["leadGen"], userId |-> u, profileId |-> p] IN
         /\ leadGenAssignments' = leadGenAssignments \cup {new}
         /\ nextId' = Bump("leadGen")
         /\ ret' = Call("createLeadGenAssignment", u, p, 0, FALSE, TRUE, {new},
                        leadGenAssignments)

MemDeleteLeadGenAssignment(u) ==
    LET existing == MemGetLeadGenAssignment(u) IN
    /\ leadGenAssignments' = leadGenAssignments \ existing
    /\ nextId' = nextId
    /\ ret' = Call("deleteLeadGenAssignment", u, 0, 0, FALSE, existing # {}, {},
                   leadGenAssignments)

MemUpdateLeadGenAssignment(u, p) ==
    LET existing == MemGetLeadGenAssignment(u)
        upd == {[e EXCEPT !.profileId = p] : e \in existing} IN
    /\ leadGenAssignments' = (leadGenAssignments \ existing) \cup upd
    /\ nextId' = nextId
    /\ ret' = Call("updateLeadGenAssignment", u, p, 0, FALSE, upd # {}, upd,
                   leadGenAssignments)

\* DatabaseStorage. Each operation takes F, the set of its database calls
\* (numbered in program order) that throw, e.g. on a lost connection.

\* getLeadGenAssignment: select ... where user_id = u limit 1; an error is
\* caught and undefined returned.
DbGetLeadGenAssignment(u, failed) ==
    IF failed THEN {{}} ELSE AnyOne({a \in leadGenAssignments : a.userId = u})

\* createLeadGenAssignment's update branch passes the plain object
\* { userId } where a SQL condition is expected. What the query builder and
\* the server make of it is not fixed by this repository: the statement is
\* rejected ("throws"), or the condition selects no row ("none"), or it
\* selects every row ("all").
WhereObjectOutcomes == {"throws", "none", "all"}

\* The part of createLeadGenAssignment after its lookup gave `existing`.
DbWriteLeadGenAssignment(u, p, F, whereObject, existing) ==
    IF existing # {}
    THEN CASE 2 \in F \/ whereObject = "throws"
                 \/ (whereObject = "all" /\ p \notin ProfileIds) ->
                /\ UNCHANGED <<leadGenAssignments, nextId>>
                /\ ret' = Call("createLeadGenAssignment", u, p, 0, TRUE, FALSE, {},
                               leadGenAssignments)
           [] whereObject = "none" /\ 2 \notin F ->
                /\ UNCHANGED <<leadGenAssignments, nextId>>
                /\ ret' = Call("createLeadGenAssignment", u, p, 0, FALSE, TRUE, {},
                               leadGenAssignments)
           [] OTHER ->
                LET upd == {[a EXCEPT !.profileId = p] : a \in leadGenAssignments} IN
                \E first \in AnyOne(upd) :
                /\ leadGenAssignments' = upd
                /\ nextId' = nextId
                /\ ret' = Call("createLeadGenAssignment", u, p, 0, FALSE, TRUE, first,
                               leadGenAssignments)
    ELSE IF 2 \in F
         THEN /\ UNCHANGED <<leadGenAssignments, nextId>>
              /\ ret' = Call("createLeadGenAssignment", u, p, 0, TRUE, FALSE, {},
                             leadGenAssignments)
         ELSE IF ~FkOk(u, p)
         THEN /\ UNCHANGED leadGenAssignments
              /\ nextId' = Bump("leadGen")
              /\ ret' = Call("createLeadGenAssignment", u, p, 0, TRUE, FALSE, {},
                             leadGenAssignments)
         ELSE LET new == [id |-> nextId["leadGen"], userId |-> u, profileId |-> p] IN
              /\ leadGenAssignments' = leadGenAssignments \cup {new}
              /\ nextId' = Bump("leadGen")
              /\ ret' = Call("createLeadGenAssignment", u, p, 0, FALSE, TRUE, {new},
                             leadGenAssignments)

DbCreateLeadGenAssignment(u, p, F, whereObject) ==
    \E existing \in DbGetLeadGenAssignment(u, 1 \in F) :
        DbWriteLeadGenAssignment(u, p, F, whereObject, existing)

\* delete ... where user_id = u; true unless the statement throws.
DbDeleteLeadGenAssignment(u, F) ==
    /\ leadGenAssignments' =
          IF 1 \in F THEN leadGenAssignments
          ELSE {a \in leadGenAssignments : a.userId # u}
    /\ nextId' = nextId
    /\ ret' = Call("deleteLeadGenAssignment", u, 0, 0, FALSE, 1 \notin F, {},
                   leadGenAssignments)

\* update ... set profile_id = p where user_id = u returning *; an error
\* (a failed call, a broken foreign key) is caught and undefined returned.
DbUpdateLeadGenAssignment(u, p, F) ==
    LET hit == {a \in leadGenAssignments : a.userId = u}
        upd == {[a EXCEPT !.profileId = p] : a \in hit}
        error == 1 \in F \/ (hit # {} /\ p \notin ProfileIds) IN
    \E first \in (IF error THEN {{}} ELSE AnyOne(upd)) :
    /\ leadGenAssignments' =
          IF error THEN leadGenAssignments ELSE (leadGenAssignments \ hit) \cup upd
    /\ nextId' = nextId
    /\ ret' = Call("updateLeadGenAssignment", u, p, 0, FALSE, first # {}, first,
                   leadGenAssignments)

\* The IStorage operations, dispatched on the implementation in use.
createLeadGenAssignment(u, p, F) ==
    IF impl = "mem" THEN MemCreateLeadGenAssignment(u, p)
    ELSE \E w \in WhereObjectOutcomes : DbCreateLeadGenAssignment(u, p, F, w)

deleteLeadGenAssignment(u, F) ==
    IF impl = "mem" THEN MemDeleteLeadGenAssignment(u)
    ELSE DbDeleteLeadGenAssignment(u, F)

updateLeadGenAssignment(u, p, F) ==
    IF impl = "mem" THEN MemUpdateLeadGenAssignment(u, p)
    ELSE DbUpdateLeadGenAssignment(u, p, F)

\* ------------------------------------------------------ sales assignments
\* A lookup with the two ids swapped.
MemFindSalesAssignment_Swapped(u, p) ==
    First({a \in salesAssignments : a.userId = p /\ a.profileId = u})

\* The row createSalesAssignment looks for before it inserts.
MemFindSalesAssignment(u, p) ==
    First({a \in salesAssignments : a.userId = u /\ a.profileId = p})

MemCreateSalesAssignment(u, p) ==
    LET existing == MemFindSalesAssignment(u, p)
        new == [id |-> nextId["sales"], userId |-> u, profileId |-> p] IN
    /\ salesAssignments' = IF existing # {} THEN salesAssignments
                           ELSE salesAssignments \cup {new}
    /\ nextId' = IF existing # {} THEN nextId ELSE Bump("sales")
    /\ ret' = Call("createSalesAssignment", u, p, 0, FALSE, TRUE,
                   IF existing # {} THEN existing ELSE {new}, salesAssignments)

\* Map.delete: true exactly when the key was present.
MemDeleteSalesAssignment(i) ==
    /\ salesAssignments' = {a \in salesAssignments : a.id # i}
    /\ nextId' = nextId
    /\ ret' = Call("deleteSalesAssignment", 0, 0, i, FALSE,
                   i \in Ids(salesAssignments), {}, salesAssignments)

\* The query chains .where(user_id = u).where(profile_id = p): the builder
\* keeps one condition, the one set last, so the rows matched are those of
\* profile p, whoever holds them.
DbFindSalesAssignment(u, p) ==
    AnyOne({a \in salesAssignments : a.profileId = p})

DbCreateSalesAssignment(u, p, F) ==
    IF 1 \in F
    THEN /\ UNCHANGED <<salesAssignments, nextId>>
         /\ ret' = Call("createSalesAssignment", u, p, 0, TRUE, FALSE, {},
                        salesAssignments)
    ELSE \E existing \in DbFindSalesAssignment(u, p) :
         IF existing # {}
         THEN /\ UNCHANGED <<salesAssignments, nextId>>
              /\ ret' = Call("createSalesAssignment", u, p, 0, FALSE, TRUE, existing,
                             salesAssignments)
         ELSE IF 2 \in F
         THEN /\ UNCHANGED <<salesAssignments, nextId>>
              /\ ret' = Call("createSalesAssignment", u, p, 0, TRUE, FALSE, {},
                             salesAssignments)
         ELSE IF ~FkOk(u, p)
         THEN /\ UNCHANGED salesAssignments
              /\ nextId' = Bump("sales")
              /\ ret' = Call("createSalesAssignment", u, p, 0, TRUE, FALSE, {},
                             salesAssignments)
         ELSE LET new == [id |-> nextId["sales"], userId |-> u, profileId |-> p] IN
              /\ salesAssignments' = salesAssignments \cup {new}
              /\ nextId' = Bump("sales")
              /\ ret' = Call("createSalesAssignment", u, p, 0, FALSE, TRUE, {new},
                             salesAssignments)

DbDeleteSalesAssignment(i, F) ==
    /\ salesAssignments' = IF 1 \in F THEN salesAssignments
                           ELSE {a \in salesAssignments : a.id # i}
    /\ nextId' = nextId
    /\ ret' = Call("deleteSalesAssignment", 0, 0, i, FALSE, 1 \notin F, {},
                   salesAssignments)

createSalesAssignment(u, p, F) ==
    IF impl = "mem" THEN MemCreateSalesAssignment(u, p)
    ELSE DbCreateSalesAssignment(u, p, F)

deleteSalesAssignment(i, F) ==
    IF impl = "mem" THEN MemDeleteSalesAssignment(i)
    ELSE DbDeleteSalesAssignment(i, F)

\* ------------------------------------------------------------------ targets
\* t: the insert row [userId, profileId, jobsToFetch, jobsToApply, startDate,
\* endDate, isWeekly]; dates are day numbers.
WithId(row, i) == [k \in DOMAIN row \cup {"id"} |-> IF k = "id" THEN i ELSE row[k]]

\* An insert: MemStorage stores the row as given; Postgres rejects it when a
\* foreign key is broken (the serial value is used up all the same) or when
\* the call fails.
Insert(rows, name, row, op, F) ==
    LET new == WithId(row, nextId[name])
        rejected == impl = "db" /\ ~FkOk(row.userId, row.profileId) IN
    IF impl = "db" /\ 1 \in F
    THEN [rows |-> rows, nextId |-> nextId,
          ret |-> Call(op, row.userId, row.profileId, 0, TRUE, FALSE, {}, rows)]
    ELSE IF rejected
    THEN [rows |-> rows, nextId |-> Bump(name),
          ret |-> Call(op, row.userId, row.profileId, 0, TRUE, FALSE, {}, rows)]
    ELSE [rows |-> rows \cup {new}, nextId |-> Bump(name),
          ret |-> Call(op, row.userId, row.profileId, 0, FALSE, TRUE, {new}, rows)]

createTarget(t, F) ==
    LET r == Insert(targets, "targets", t, "createTarget", F) IN
    /\ targets' = r.rows
    /\ nextId' = r.nextId
    /\ ret' = r.ret

\* updateTarget: both implementations set the two goals of the row with that
\* id; DatabaseStorage returns undefined when the call throws.
updateTarget(i, jobsToFetch, jobsToApply, F) ==
    LET hit == IF impl = "db" /\ 1 \in F THEN {} ELSE {t \in targets : t.id = i}
        upd == {[t EXCEPT !.jobsToFetch = jobsToFetch, !.jobsToApply = jobsToApply] :
                    t \in hit} IN
    /\ targets' = (targets \ hit) \cup upd
    /\ nextId' = nextId
    /\ ret' = Call("updateTarget", 0, 0, i, FALSE, upd # {}, upd, targets)

\* deleteTarget: Map.delete's answer in MemStorage; in DatabaseStorage true
\* unless the call throws.
deleteTarget(i, F) ==
    LET failed == impl = "db" /\ 1 \in F IN
    /\ targets' = IF failed THEN targets ELSE {t \in targets : t.id # i}
    /\ nextId' = nextId
    /\ ret' = Call("deleteTarget", 0, 0, i, FALSE,
                   IF impl = "mem" THEN i \in Ids(targets) ELSE ~failed, {}, targets)

\* ------------------------------------------- progress updates, lead entries
\* u: [userId, profileId, date, jobsFetched, jobsApplied]
createProgressUpdate(u, F) ==
    LET r == Insert(progressUpdates, "progress", u, "createProgressUpdate", F) IN
    /\ progressUpdates' = r.rows
    /\ nextId' = r.nextId
    /\ ret' = r.ret

\* e: [userId, profileId, date, newLeads, clientRejections, teamRejections]
createLeadEntry(e, F) ==
    LET r == Insert(leadEntries, "leads", e, "createLeadEntry", F) IN
    /\ leadEntries' = r.rows
    /\ nextId' = r.nextId
    /\ ret' = r.ret

\* A partial row: a function from some of the column names to new values.
Merge(row, patch) ==
    [k \in DOMAIN row |-> IF k \in DOMAIN patch THEN patch[k] ELSE row[k]]

\* updateLeadEntry(id, fields): MemStorage spreads the fields over the row;
\* DatabaseStorage runs update ... set fields where id = i, and returns
\* undefined when that throws: on a failed call, on an empty set of fields
\* ("No values to set"), on a broken foreign key.
updateLeadEntry(i, patch, F) ==
    LET hit == {e \in leadEntries : e.id = i}
        upd == {Merge(e, patch) : e \in hit}
        error == /\ impl = "db"
                 /\ \/ 1 \in F
                    \/ DOMAIN patch = {}
                    \/ \E e \in upd : ~FkOk(e.userId, e.profileId)
        new == IF error THEN {} ELSE upd IN
    /\ leadEntries' = IF error THEN leadEntries ELSE (leadEntries \ hit) \cup upd
    /\ nextId' = nextId
    /\ ret' = Call("updateLeadEntry", 0, 0, i, FALSE, new # {}, new, leadEntries)

\* ----------------------------------------------------------------- profiles
\* JavaScript truthiness of a JSON value, as `x || null` reads it.
Falsy(j) == \/ j.t \in {"undef", "null"}
            \/ j.t = "str" /\ j.s = ""
            \/ j.t = "num" /\ j.n = 0

\* What a text column holds after Postgres is sent the value: a number is
\* stored as its decimal text.
DigitText == <<"0", "1", "2", "3", "4", "5", "6", "7", "8", "9">>
ToText(j) == IF j.t = "num" THEN Str(DigitText[j.n + 1]) ELSE j

\* name and description are NOT NULL columns; resume_content is nullable.
NotNullColumns == {"name", "description"}

\* pr: the insert row [name, description, resumeContent, resumeBuffer] of
\* JSON values.
MemCreateProfile(pr) ==
    LET new == [id |-> nextId["profiles"], name |-> pr.name,
                description |-> pr.description,
                resumeContent |-> IF Falsy(pr.resumeContent) THEN Null
                                  ELSE pr.resumeContent,
                resumeBuffer |-> IF Falsy(pr.resumeBuffer) THEN Null
                                 ELSE pr.resumeBuffer] IN
    /\ profiles' = profiles \cup {new}
    /\ nextId' = Bump("profiles")
    /\ ret' = Call("createProfile", 0, 0, 0, FALSE, TRUE, {new}, profiles)

DbCreateProfile(pr, F) ==
    LET new == [id |-> nextId["profiles"], name |-> ToText(pr.name),
                description |-> ToText(pr.description),
                resumeContent |-> IF pr.resumeContent.t = "undef" THEN Null
                                  ELSE ToText(pr.resumeContent),
                resumeBuffer |-> IF pr.resumeBuffer.t = "undef" THEN Null
                                 ELSE ToText(pr.resumeBuffer)]
        rejected == \E c \in NotNullColumns : pr[c].t \in {"undef", "null"} IN
    IF 1 \in F
    THEN /\ UNCHANGED <<profiles, nextId>>
         /\ ret' = Call("createProfile", 0, 0, 0, TRUE, FALSE, {}, profiles)
    ELSE IF rejected
    THEN /\ UNCHANGED profiles
         /\ nextId' = Bump("profiles")
         /\ ret' = Call("createProfile", 0, 0, 0, TRUE, FALSE, {}, profiles)
    ELSE /\ profiles' = profiles \cup {new}
         /\ nextId' = Bump("profiles")
         /\ ret' = Call("createProfile", 0, 0, 0, FALSE, TRUE, {new}, profiles)

createProfile(pr, F) ==
    IF impl = "mem" THEN MemCreateProfile(pr) ELSE DbCreateProfile(pr, F)

\* updateProfile(id, fields): fields is a partial row of JSON values.
MemUpdateProfile(i, patch) ==
    LET hit == {x \in profiles : x.id = i}
        upd == {Merge(x, patch) : x \in hit} IN
    /\ profiles' = (profiles \ hit) \cup upd
    /\ nextId' = nextId
    /\ ret' = Call("updateProfile", 0, 0, i, FALSE, upd # {}, upd, profiles)

DbUpdateProfile(i, patch, F) ==
    LET hit == {x \in profiles : x.id = i}
        upd == {Merge(x, [k \in DOMAIN patch |-> ToText(patch[k])]) : x \in hit}
        error == \/ 1 \in F
                 \/ DOMAIN patch = {}
                 \/ hit # {} /\ \E c \in NotNullColumns \cap DOMAIN patch :
                                    patch[c].t = "null"
        new == IF error THEN {} ELSE upd IN
    /\ profiles' = IF error THEN profiles ELSE (profiles \ hit) \cup upd
    /\ nextId' = nextId
    /\ ret' = Call("updateProfile", 0, 0, i, FALSE, new # {}, new, profiles)

updateProfile(i, patch, F) ==
    IF impl = "mem" THEN MemUpdateProfile(i, patch) ELSE DbUpdateProfile(i, patch, F)

\* The rows of each of the five tables that point to profile i.
RefRows(i) ==
    << {a \in leadGenAssignments : a.profileId = i},
       {a \in salesAssignments : a.profileId = i},
       {t \in targets : t.profileId = i},
       {u \in progressUpdates : u.profileId = i},
       {e \in leadEntries : e.profileId = i} >>

\* An "in use" test that leaves out the lead entries.
MemProfileInUse_NoLeadEntries(i) == \E k \in 1..4 : RefRows(i)[k] # {}

\* MemStorage.deleteProfile's "in use" test: some filtered list is non-empty.
MemProfileInUse(i) == \E k \in 1..5 : RefRows(i)[k] # {}

MemDeleteProfile(i) ==
    LET inUse == MemProfileInUse(i) IN
    /\ profiles' = IF inUse THEN profiles ELSE {x \in profiles : x.id # i}
    /\ nextId' = nextId
    /\ ret' = Call("deleteProfile", 0, 0, i, FALSE,
                   ~inUse /\ i \in ProfileIds, {}, profiles)

\* DatabaseStorage.deleteProfile selects { count: { count: <table>.id } }
\* from the rows pointing to the profile: no aggregate, one result row
\* { count: { count: id } } per matching row. Then `result[0].count > 0`
\* - reads .count of undefined when no row matched: a TypeError, caught,
\*   and false is returned;
\* - compares the object { count: id } with 0 otherwise: the object converts
\*   to NaN and NaN > 0 is false.
DbCountReadThrows(rows) == rows = {}
DbCountObjectPositive(rows) == FALSE

\* delete from profiles where id = i: Postgres refuses while a row of
\* another table references the profile.
DbDeleteRefused(i) == \E k \in 1..5 : RefRows(i)[k] # {}

\* Database calls 1..5 are the five selects, call 6 the delete.
DbDeleteProfile(i, F) ==
    LET selectThrew == F \cap (1..5) # {}
        \* the || chain stops at its first true operand
        readThrew == \E k \in 1..5 :
                        /\ DbCountReadThrows(RefRows(i)[k])
                        /\ \A j \in 1..(k - 1) : ~DbCountObjectPositive(RefRows(i)[j])
        threw == selectThrew \/ readThrew
        inUse == \E k \in 1..5 : DbCountObjectPositive(RefRows(i)[k])
        deleted == ~threw /\ ~inUse /\ 6 \notin F /\ ~DbDeleteRefused(i) IN
    /\ profiles' = IF deleted THEN {x \in profiles : x.id # i} ELSE profiles
    /\ nextId' = nextId
    /\ ret' = Call("deleteProfile", 0, 0, i, FALSE, deleted, {}, profiles)

deleteProfile(i, F) ==
    IF impl = "mem" THEN MemDeleteProfile(i) ELSE DbDeleteProfile(i, F)

\* getProfile(id): the row, or undefined; DatabaseStorage also answers
\* undefined when the select throws.
getProfile(i, F) ==
    IF impl = "db" /\ 1 \in F THEN {} ELSE {x \in profiles : x.id = i}

\* ------------------------------------------- the IStorage calls as actions
\* Arguments of the calls: two lead-generation users, two sales users and an
\* id no user has; two profiles and an id that no profile has at first.
LeadGenUserArgs == {2, 3, 6}
SalesUserArgs == {4, 5, 6}
ProfileArgs == {1, 2, 6}
NoFault == {}

ExceptLeadGen == <<users, profiles, salesAssignments, targets, progressUpdates,
                   leadEntries, inflight>>
ExceptSales == <<users, profiles, leadGenAssignments, targets, progressUpdates,
                 leadEntries, inflight>>
ExceptTargets == <<users, profiles, leadGenAssignments, salesAssignments,
                   progressUpdates, leadEntries, inflight>>
ExceptProgress == <<users, profiles, leadGenAssignments, salesAssignments, targets,
                    leadEntries, inflight>>
ExceptLeads == <<users, profiles, leadGenAssignments, salesAssignments, targets,
                 progressUpdates, inflight>>
ExceptProfiles == <<users, leadGenAssignments, salesAssignments, targets,
                    progressUpdates, leadEntries, inflight>>
OnlyLeadGen == <<impl, resp, ExceptLeadGen>>
OnlySales == <<impl, resp, ExceptSales>>
OnlyTargets == <<impl, resp, ExceptTargets>>
OnlyProgress == <<impl, resp, ExceptProgress>>
OnlyLeads == <<impl, resp, ExceptLeads>>
OnlyProfiles == <<impl, resp, ExceptProfiles>>

Room(t) == nextId[t] <= MaxId

CallCreateLeadGenAssignment(U, P) ==
    \E u \in U, p \in P :
        /\ Room("leadGen")
        /\ createLeadGenAssignment(u, p, NoFault)
        /\ UNCHANGED OnlyLeadGen

CallUpdateLeadGenAssignment(U, P) ==
    \E u \in U, p \in P :
        /\ updateLeadGenAssignment(u, p, NoFault)
        /\ UNCHANGED OnlyLeadGen

CallDeleteLeadGenAssignment(U) ==
    \E u \in U :
        /\ deleteLeadGenAssignment(u, NoFault)
        /\ UNCHANGED OnlyLeadGen

\* The profile a manager's form produces.
SomeProfile == [name |-> Str("name"), description |-> Str("descr"),
                resumeContent |-> Str("cv"), resumeBuffer |-> Str("pdf")]

\* DatabaseStorage starts without profiles: the first MaxProfiles are made
\* here. MemStorage has its five already.
MaxProfiles == 2

CallCreateProfile ==
    /\ impl = "db"
    /\ nextId["profiles"] <= MaxProfiles
    /\ createProfile(SomeProfile, NoFault)
    /\ UNCHANGED OnlyProfiles

NextLeadGen ==
    \/ CallCreateLeadGenAssignment(LeadGenUserArgs, ProfileArgs)
    \/ CallUpdateLeadGenAssignment(LeadGenUserArgs, ProfileArgs)
    \/ CallDeleteLeadGenAssignment(LeadGenUserArgs)
    \/ CallCreateProfile

SpecLeadGen == Init /\ [][NextLeadGen]_vars

CallCreateSalesAssignment(U, P) ==
    \E u \in U, p \in P :
        /\ Room("sales")
        /\ createSalesAssignment(u, p, NoFault)
        /\ UNCHANGED OnlySales

CallDeleteSalesAssignment ==
    \E i \in 1..MaxId :
        /\ deleteSalesAssignment(i, NoFault)
        /\ UNCHANGED OnlySales

NextSales ==
    \/ CallCreateSalesAssignment(SalesUserArgs, ProfileArgs)
    \/ CallDeleteSalesAssignment
    \/ CallCreateProfile

SpecSales == Init /\ [][NextSales]_vars


\* The rows the forms produce, but for the two ids: a target, a day's
\* progress update, a day's lead entry.
SomeTarget(u, p) ==
    [userId |-> u, profileId |-> p, jobsToFetch |-> 2, jobsToApply |-> 1,
     startDate |-> 1, endDate |-> 2, isWeekly |-> TRUE]
SomeProgressUpdate(u, p) ==
    [userId |-> u, profileId |-> p, date |-> 1, jobsFetched |-> 2, jobsApplied |-> 1]
SomeLeadEntry(u, p) ==
    [userId |-> u, profileId |-> p, date |-> 1, newLeads |-> 1,
     clientRejections |-> 0, teamRejections |-> 0]

CallCreateTarget(U, P) ==
    \E u \in U, p \in P :
        /\ Room("targets")
        /\ createTarget(SomeTarget(u, p), NoFault)
        /\ UNCHANGED OnlyTargets

CallDeleteTarget ==
    \E i \in 1..MaxId :
        /\ deleteTarget(i, NoFault)
        /\ UNCHANGED OnlyTargets

CallCreateProgressUpdate(U, P) ==
    \E u \in U, p \in P :
        /\ Room("progress")
        /\ createProgressUpdate(SomeProgressUpdate(u, p), NoFault)
        /\ UNCHANGED OnlyProgress

CallCreateLeadEntry(U, P) ==
    \E u \in U, p \in P :
        /\ Room("leads")
        /\ createLeadEntry(SomeLeadEntry(u, p), NoFault)
        /\ UNCHANGED OnlyLeads

\* updateLeadEntry with the fields { profileId: p }.
CallUpdateLeadEntry(P) ==
    \E i \in 1..MaxId, p \in P :
        /\ updateLeadEntry(i, [k \in {"profileId"} |-> p], NoFault)
        /\ UNCHANGED OnlyLeads

CallDeleteProfile(P) ==
    \E i \in P :
        /\ deleteProfile(i, NoFault)
        /\ UNCHANGED OnlyProfiles

\* The ids handed out so far by the five tables that point to profiles.
Attempts == (nextId["leadGen"] - 1) + (nextId["sales"] - 1) + (nextId["targets"] - 1)
            + (nextId["progress"] - 1) + (nextId["leads"] - 1)

\* The whole store, every operation that writes a row pointing to a user or
\* a profile: at most MaxRefs ids are handed out between the five tables.
MaxRefs == 2
StoreUserArgs == {2, 6}
StoreSalesArgs == {4, 6}
StoreProfileArgs == {1, 2, 6}

NextStore ==
    \/ Attempts < MaxRefs /\ CallCreateLeadGenAssignment(StoreUserArgs, StoreProfileArgs)
    \/ Attempts < MaxRefs /\ CallCreateSalesAssignment(StoreSalesArgs, StoreProfileArgs)
    \/ Attempts < MaxRefs /\ CallCreateTarget(StoreUserArgs, StoreProfileArgs)
    \/ Attempts < MaxRefs /\ CallCreateProgressUpdate(StoreUserArgs, StoreProfileArgs)
    \/ Attempts < MaxRefs /\ CallCreateLeadEntry(StoreSalesArgs, StoreProfileArgs)
    \/ CallUpdateLeadGenAssignment(StoreUserArgs, StoreProfileArgs)
    \/ CallUpdateLeadEntry(StoreProfileArgs)
    \/ CallDeleteLeadGenAssignment(StoreUserArgs)
    \/ CallDeleteSalesAssignment
    \/ CallDeleteTarget
    \/ CallCreateProfile
    \/ CallDeleteProfile(StoreProfileArgs)

SpecStore == Init /\ [][NextStore]_vars

\* deleteProfile against profiles that rows of all five tables may point to:
\* at most MaxDeleteRefs ids are handed out between the five tables.
MaxDeleteRefs == 5
DeleteProfileArgs == {1, 2}

NextDelete ==
    \/ Attempts < MaxDeleteRefs /\ CallCreateLeadGenAssignment({2}, DeleteProfileArgs)
    \/ Attempts < MaxDeleteRefs /\ CallCreateSalesAssignment({4}, DeleteProfileArgs)
    \/ Attempts < MaxDeleteRefs /\ CallCreateTarget({2}, DeleteProfileArgs)
    \/ Attempts < MaxDeleteRefs /\ CallCreateProgressUpdate({2}, DeleteProfileArgs)
    \/ Attempts < MaxDeleteRefs /\ CallCreateLeadEntry({4}, DeleteProfileArgs)
    \/ CallCreateProfile
    \/ CallDeleteProfile(DeleteProfileArgs)

SpecDelete == Init /\ [][NextDelete]_vars

\* --------------------------------------------------------------- routes
\* A request carries the id of the session's user, 0 when there is no
\* session (req.isAuthenticated() is false).
Role(req) == IF req = 0 THEN "none" ELSE (CHOOSE x \in users : x.id = req).role

AllRoles == {"manager", "lead_gen", "sales"}
\* isAuthenticated asks no role: every role passes.
AllRolesOf(route) == AllRoles

\* The two middlewares: the status they answer, 0 when they call next().
isAuthenticated(req) == IF req # 0 THEN 0 ELSE 401

\* A role check that lets every authenticated requester through.
hasRole_NoRoleCheck(roles, req) == IF req = 0 THEN 401 ELSE 0

hasRole(roles, req) ==
    IF req = 0 THEN 401
    ELSE IF Role(req) \notin roles THEN 403
    ELSE 0

\* The zod insert schemas (drizzle-zod): a number for an integer column, a
\* string for a text or date column, a boolean for a boolean column;
\* insertProfileSchema asks a resume text of at least one character.
ZNumber(j) == j.t = "num"
ZString(j) == j.t = "str"
ZBoolean(j) == j.t = "bool"

insertProfileSchema(b) ==
    /\ ZString(b.name)
    /\ ZString(b.description)
    /\ ZString(b.resumeContent) /\ b.resumeContent.s # ""
    /\ (ZString(b.resumeBuffer) \/ b.resumeBuffer.t = "undef")
insertLeadGenAssignmentSchema(b) == ZNumber(b.userId) /\ ZNumber(b.profileId)
insertSalesAssignmentSchema(b) == ZNumber(b.userId) /\ ZNumber(b.profileId)
insertTargetSchema(b) ==
    /\ ZNumber(b.userId) /\ ZNumber(b.profileId)
    /\ ZNumber(b.jobsToFetch) /\ ZNumber(b.jobsToApply)
    /\ ZString(b.startDate) /\ ZString(b.endDate)
    /\ ZBoolean(b.isWeekly)
insertProgressUpdateSchema(b) ==
    /\ ZNumber(b.userId) /\ ZNumber(b.profileId)
    /\ ZString(b.date)
    /\ ZNumber(b.jobsFetched) /\ ZNumber(b.jobsApplied)
insertLeadEntrySchema(b) ==
    /\ ZNumber(b.userId) /\ ZNumber(b.profileId)
    /\ ZString(b.date)
    /\ ZNumber(b.newLeads) /\ ZNumber(b.clientRejections) /\ ZNumber(b.teamRejections)

\* The row a validated body becomes: numbers and days out of JSON values.
Plain(b) == [k \in DOMAIN b |-> IF b[k].t = "bool" THEN b[k].n = 1 ELSE b[k].n]

Response(route, req, guard, status, ran, valid, threw) ==
    [route |-> route, requester |-> req, role |-> Role(req), guard |-> guard,
     status |-> status, ranHandler |-> ran, bodyValid |-> valid, dbThrew |-> threw]

\* The middleware answered: the handler does not run, the body is not read.
Rejected(route, req, guard, status) ==
    /\ resp' = Response(route, req, guard, status, FALSE, TRUE, FALSE)
    /\ ret' = NoCall
    /\ UNCHANGED store

\* The handler answered before it called the storage.
Early(route, req, guard, status, valid, threw) ==
    /\ resp' = Response(route, req, guard, status, TRUE, valid, threw)
    /\ ret' = NoCall
    /\ UNCHANGED store

\* The handler's answer after its storage call: 500 from the catch block
\* when the call threw, else by the call's result.
Answer(route, req, guard, valid, F, found, missing) ==
    resp' = Response(route, req, guard,
                     IF ret'.threw THEN 500 ELSE IF ret'.ok THEN found ELSE missing,
                     TRUE, valid, impl = "db" /\ 1 \in F)

GetProfiles(req, F) ==
    LET route == "GET /api/profiles"
        g == isAuthenticated(req) IN
    /\ UNCHANGED impl
    /\ IF g # 0 THEN Rejected(route, req, AllRolesOf(route), g)
       ELSE /\ ret' = Call("getProfiles", 0, 0, 0, FALSE, TRUE,
                           IF impl = "db" /\ 1 \in F THEN {} ELSE profiles, profiles)
            /\ UNCHANGED store
            /\ Answer(route, req, AllRolesOf(route), TRUE, F, 200, 200)

GetProfile(req, i, F) ==
    LET route == "GET /api/profiles/:id"
        g == isAuthenticated(req)
        found == getProfile(i, F) IN
    /\ UNCHANGED impl
    /\ IF g # 0 THEN Rejected(route, req, AllRolesOf(route), g)
       ELSE /\ ret' = Call("getProfile", 0, 0, i, FALSE, found # {}, found, profiles)
            /\ UNCHANGED store
            /\ Answer(route, req, AllRolesOf(route), TRUE, F, 200, 404)

PostProfiles(req, body, F) ==
    LET route == "POST /api/profiles"
        guard == {"manager"}
        g == hasRole(guard, req)
        valid == insertProfileSchema(body) IN
    /\ UNCHANGED impl
    /\ IF g # 0 THEN Rejected(route, req, guard, g)
       ELSE IF ~valid THEN Early(route, req, guard, 400, valid, FALSE)
       ELSE /\ createProfile(body, F)
            /\ UNCHANGED ExceptProfiles
            /\ Answer(route, req, guard, valid, F, 201, 201)

\* Each field the body gives satisfies its column's part of the schema.
ProfilePatchValid(patch) ==
    /\ \A k \in DOMAIN patch : ZString(patch[k])
    /\ "resumeContent" \in DOMAIN patch => patch.resumeContent.s # ""

PatchProfile(req, i, patch, F) ==
    LET route == "PATCH /api/profiles/:id"
        guard == {"manager"}
        g == hasRole(guard, req)
        valid == ProfilePatchValid(patch) IN
    /\ UNCHANGED impl
    /\ IF g # 0 THEN Rejected(route, req, guard, g)
       ELSE /\ updateProfile(i, patch, F)
            /\ UNCHANGED ExceptProfiles
            /\ Answer(route, req, guard, valid, F, 200, 404)

DeleteProfile(req, i, F) ==
    LET route == "DELETE /api/profiles/:id"
        guard == {"manager"}
        g == hasRole(guard, req) IN
    /\ UNCHANGED impl
    /\ IF g # 0 THEN Rejected(route, req, guard, g)
       ELSE /\ deleteProfile(i, F)
            /\ UNCHANGED ExceptProfiles
            /\ Answer(route, req, guard, TRUE, F, 204, 404)

PostLeadGenAssignments(req, body, F) ==
    LET route == "POST /api/lead-gen-assignments"
        guard == {"manager"}
        g == hasRole(guard, req)
        valid == insertLeadGenAssignmentSchema(body) IN
    /\ UNCHANGED impl
    /\ IF g # 0 THEN Rejected(route, req, guard, g)
       ELSE IF ~valid THEN Early(route, req, guard, 400, valid, FALSE)
       ELSE /\ createLeadGenAssignment(body.userId.n, body.profileId.n, F)
            /\ UNCHANGED ExceptLeadGen
            /\ Answer(route, req, guard, valid, F, 201, 201)

DeleteLeadGenAssignment(req, u, F) ==
    LET route == "DELETE /api/lead-gen-assignments/:userId"
        guard == {"manager"}
        g == hasRole(guard, req) IN
    /\ UNCHANGED impl
    /\ IF g # 0 THEN Rejected(route, req, guard, g)
       ELSE /\ deleteLeadGenAssignment(u, F)
            /\ UNCHANGED ExceptLeadGen
            /\ Answer(route, req, guard, TRUE, F, 204, 404)

PostSalesAssignments(req, body, F) ==
    LET route == "POST /api/sales-assignments"
        guard == {"manager"}
        g == hasRole(guard, req)
        valid == insertSalesAssignmentSchema(body) IN
    /\ UNCHANGED impl
    /\ IF g # 0 THEN Rejected(route, req, guard, g)
       ELSE IF ~valid THEN Early(route, req, guard, 400, valid, FALSE)
       ELSE /\ createSalesAssignment(body.userId.n, body.profileId.n, F)
            /\ UNCHANGED ExceptSales
            /\ Answer(route, req, guard, valid, F, 201, 201)

DeleteSalesAssignment(req, i, F) ==
    LET route == "DELETE /api/sales-assignments/:id"
        guard == {"manager"}
        g == hasRole(guard, req) IN
    /\ UNCHANGED impl
    /\ IF g # 0 THEN Rejected(route, req, guard, g)
       ELSE /\ deleteSalesAssignment(i, F)
            /\ UNCHANGED ExceptSales
            /\ Answer(route, req, guard, TRUE, F, 204, 404)

PostTargets(req, body, F) ==
    LET route == "POST /api/targets"
        guard == {"manager"}
        g == hasRole(guard, req)
        valid == insertTargetSchema(body) IN
    /\ UNCHANGED impl
    /\ IF g # 0 THEN Rejected(route, req, guard, g)
       ELSE IF ~valid THEN Early(route, req, guard, 400, valid, FALSE)
       ELSE /\ createTarget(Plain(body), F)
            /\ UNCHANGED ExceptTargets
            /\ Answer(route, req, guard, valid, F, 201, 201)

\* body: [jobsToFetch, jobsToApply]; the handler asks typeof ... === 'number'.
PatchTarget(req, i, body, F) ==
    LET route == "PATCH /api/targets/:id"
        guard == {"manager"}
        g == hasRole(guard, req)
        valid == ZNumber(body.jobsToFetch) /\ ZNumber(body.jobsToApply)
        typesOk == body.jobsToFetch.t = "num" /\ body.jobsToApply.t = "num" IN
    /\ UNCHANGED impl
    /\ IF g # 0 THEN Rejected(route, req, guard, g)
       ELSE IF ~typesOk THEN Early(route, req, guard, 400, valid, FALSE)
       ELSE /\ updateTarget(i, body.jobsToFetch.n, body.jobsToApply.n, F)
            /\ UNCHANGED ExceptTargets
            /\ Answer(route, req, guard, valid, F, 200, 404)

DeleteTarget(req, i, F) ==
    LET route == "DELETE /api/targets/:id"
        guard == {"manager"}
        g == hasRole(guard, req) IN
    /\ UNCHANGED impl
    /\ IF g # 0 THEN Rejected(route, req, guard, g)
       ELSE /\ deleteTarget(i, F)
            /\ UNCHANGED ExceptTargets
            /\ Answer(route, req, guard, TRUE, F, 204, 404)

\* getUserAssignedProfile(u).profile for a lead_gen user u, as a set of the
\* results the lookups can give: the user, the user's assignment, its
\* profile. In DatabaseStorage a lookup that throws yields undefined.
\* A lookup that takes the oldest lead-gen assignment, whoever's it is.
AssignedProfile_OfAnyUser(u, F) ==
    { {x \in profiles : \E a \in First(leadGenAssignments) : x.id = a.profileId} }

AssignedProfile(u, F) ==
    IF impl = "mem"
    THEN { {x \in profiles : \E a \in MemGetLeadGenAssignment(u) : x.id = a.profileId} }
    ELSE IF 1 \in F THEN { {} }
    ELSE { {x \in profiles : \E a \in one : x.id = a.profileId} :
              one \in DbGetLeadGenAssignment(u, FALSE) }

\* The body's userId and profileId are replaced before validation.
PostProgressUpdates(req, body, F, F2) ==
    LET route == "POST /api/progress-updates"
        guard == {"lead_gen"}
        g == hasRole(guard, req)
        lookupThrew == impl = "db" /\ 1 \in F IN
    /\ UNCHANGED impl
    /\ IF g # 0
       THEN Rejected(route, req, guard, g)
       ELSE \E assigned \in AssignedProfile(req, F) :
            LET data == [body EXCEPT
                            !.userId = Num(req),
                            !.profileId = IF assigned = {} THEN Undef
                                          ELSE Num((CHOOSE x \in assigned : TRUE).id)]
                valid == insertProgressUpdateSchema(data) IN
            IF assigned = {} THEN Early(route, req, guard, 400, valid, lookupThrew)
            ELSE IF ~valid THEN Early(route, req, guard, 400, valid, FALSE)
            ELSE /\ createProgressUpdate(Plain(data), F2)
                 /\ UNCHANGED ExceptProgress
                 /\ Answer(route, req, guard, valid, F2, 201, 201)

\* getUserAssignedProfiles(u) as ids: MemStorage answers for sales users
\* only; DatabaseStorage also gives a lead_gen user's profile, and the empty
\* list when its first lookup throws.
\* A lookup that gives every profile to every user.
AssignedProfileIds_AllProfiles(u, F) == ProfileIds

AssignedProfileIds(u, F) ==
    LET ofSales == {a.profileId : a \in {x \in salesAssignments : x.userId = u}}
        ofLeadGen == {a.profileId : a \in {x \in leadGenAssignments : x.userId = u}} IN
    IF impl = "mem"
    THEN IF Role(u) = "sales" THEN ofSales \cap ProfileIds ELSE {}
    ELSE IF 1 \in F THEN {}
    ELSE IF Role(u) = "sales" THEN ofSales \cap ProfileIds
    ELSE IF Role(u) = "lead_gen" THEN ofLeadGen \cap ProfileIds
    ELSE {}

PostLeadEntries(req, body, F, F2) ==
    LET route == "POST /api/lead-entries"
        guard == {"sales"}
        g == hasRole(guard, req)
        data == [body EXCEPT !.userId = Num(req)]
        valid == insertLeadEntrySchema(data)
        included == body.profileId.t = "num"
                    /\ body.profileId.n \in AssignedProfileIds(req, F) IN
    /\ UNCHANGED impl
    /\ IF g # 0 THEN Rejected(route, req, guard, g)
       ELSE IF ~included
       THEN Early(route, req, guard, 400, valid, impl = "db" /\ 1 \in F)
       ELSE IF ~valid THEN Early(route, req, guard, 400, valid, FALSE)
       ELSE /\ createLeadEntry(Plain(data), F2)
            /\ UNCHANGED ExceptLeads
            /\ Answer(route, req, guard, valid, F2, 201, 201)

\* patch: some of the entry's integer columns with new numbers; such a body
\* satisfies the schema's part for each field it gives.
PatchLeadEntry(req, i, patch, F) ==
    LET route == "PATCH /api/lead-entries/:id"
        guard == {"sales"}
        g == hasRole(guard, req) IN
    /\ UNCHANGED impl
    /\ IF g # 0 THEN Rejected(route, req, guard, g)
       ELSE /\ updateLeadEntry(i, patch, F)
            /\ UNCHANGED ExceptLeads
            /\ Answer(route, req, guard, TRUE, F, 200, 404)

\* Requests: no session, the manager, a lead-generation user, a sales user.
Requesters == {0, 1, 2, 4}
\* A storage call that goes through, or whose first database call throws
\* (MemStorage makes no database call).
Faults == IF impl = "mem" THEN {{}} ELSE {{}, {1}}
\* The ids a request names: those of the table's rows and one no row has.
IdArgs(rows, name) == Ids(rows) \cup {nextId[name]}

ProfileBodies ==
    {SomeProfile,
     [name |-> Str("name"), description |-> Str("descr"), resumeContent |-> Str(""),
      resumeBuffer |-> Undef]}
ProfilePatches ==
    {[resumeContent |-> Str("")], [resumeContent |-> Str("cv")]}
AssignmentBodies(U, P) ==
    {[userId |-> Num(u), profileId |-> Num(p)] : u \in U, p \in P}
        \cup {[userId |-> Str("x"), profileId |-> Num(p)] : p \in P}
TargetBody(u, p, fetch) ==
    [userId |-> Num(u), profileId |-> Num(p), jobsToFetch |-> fetch,
     jobsToApply |-> Num(1), startDate |-> DateStr(1), endDate |-> DateStr(2),
     isWeekly |-> Bool(TRUE)]
TargetBodies == {TargetBody(2, 1, Num(2)), TargetBody(2, 1, Str("x"))}
TargetPatches ==
    {[jobsToFetch |-> Num(3), jobsToApply |-> Num(1)],
     [jobsToFetch |-> Str("x"), jobsToApply |-> Num(1)]}
ProgressBodies ==
    {[userId |-> Undef, profileId |-> Undef, date |-> DateStr(1),
      jobsFetched |-> f, jobsApplied |-> Num(1)] : f \in {Num(2), Str("x")}}
LeadEntryBodies ==
    {[userId |-> Undef, profileId |-> Num(1), date |-> DateStr(1),
      newLeads |-> n, clientRejections |-> Num(0), teamRejections |-> Num(0)] :
        n \in {Num(1), Str("x")}}
LeadEntryPatches == {[newLeads |-> 2]}

\* Profiles made since the start.
ProfilesMade ==
    nextId["profiles"] - 1 - (IF impl = "mem" THEN Cardinality(DefaultProfiles) ELSE 0)

MaxHttpProfiles == 1
MaxHttpRefs == 2

\* Nothing a rejected request carries is read, and no storage call is made
\* for it: one body, one id and one fault pattern stand for all of them.
Sent(roles, req, S) == IF hasRole(roles, req) = 0 THEN S ELSE {CHOOSE x \in S : TRUE}

NextHttp ==
    \/ \E req \in Requesters : \E F \in Sent(AllRoles, req, Faults) :
            GetProfiles(req, F)
    \/ \E req \in Requesters : \E F \in Sent(AllRoles, req, Faults) :
            GetProfile(req, 1, F)
    \/ \E req \in Requesters :
       \E b \in Sent({"manager"}, req, ProfileBodies), F \in Sent({"manager"}, req, Faults) :
            ProfilesMade < MaxHttpProfiles /\ PostProfiles(req, b, F)
    \/ \E req \in Requesters :
       \E b \in Sent({"manager"}, req, ProfilePatches), F \in Sent({"manager"}, req, Faults) :
            PatchProfile(req, 1, b, F)
    \/ \E req \in Requesters : \E F \in Sent({"manager"}, req, Faults) :
            DeleteProfile(req, 1, F)
    \/ \E req \in Requesters :
       \E b \in Sent({"manager"}, req, AssignmentBodies({2}, {1})),
          F \in Sent({"manager"}, req, Faults) :
            Attempts < MaxHttpRefs /\ PostLeadGenAssignments(req, b, F)
    \/ \E req \in Requesters : \E F \in Sent({"manager"}, req, Faults) :
            DeleteLeadGenAssignment(req, 2, F)
    \/ \E req \in Requesters :
       \E b \in Sent({"manager"}, req, AssignmentBodies({4}, {1})),
          F \in Sent({"manager"}, req, Faults) :
            Attempts < MaxHttpRefs /\ PostSalesAssignments(req, b, F)
    \/ \E req \in Requesters :
       \E i \in Sent({"manager"}, req, IdArgs(salesAssignments, "sales")),
          F \in Sent({"manager"}, req, Faults) :
            DeleteSalesAssignment(req, i, F)
    \/ \E req \in Requesters :
       \E b \in Sent({"manager"}, req, TargetBodies), F \in Sent({"manager"}, req, Faults) :
            Attempts < MaxHttpRefs /\ PostTargets(req, b, F)
    \/ \E req \in Requesters :
       \E i \in Sent({"manager"}, req, IdArgs(targets, "targets")),
          b \in Sent({"manager"}, req, TargetPatches),
          F \in Sent({"manager"}, req, Faults) :
            PatchTarget(req, i, b, F)
    \/ \E req \in Requesters :
       \E i \in Sent({"manager"}, req, IdArgs(targets, "targets")),
          F \in Sent({"manager"}, req, Faults) :
            DeleteTarget(req, i, F)
    \/ \E req \in Requesters :
       \E b \in Sent({"lead_gen"}, req, ProgressBodies),
          F \in Sent({"lead_gen"}, req, Faults), F2 \in Sent({"lead_gen"}, req, Faults) :
            Attempts < MaxHttpRefs /\ PostProgressUpdates(req, b, F, F2)
    \/ \E req \in Requesters :
       \E b \in Sent({"sales"}, req, LeadEntryBodies),
          F \in Sent({"sales"}, req, Faults), F2 \in Sent({"sales"}, req, Faults) :
            Attempts < MaxHttpRefs /\ PostLeadEntries(req, b, F, F2)
    \/ \E req \in Requesters :
       \E i \in Sent({"sales"}, req, IdArgs(leadEntries, "leads")),
          b \in Sent({"sales"}, req, LeadEntryPatches),
          F \in Sent({"sales"}, req, Faults) :
            PatchLeadEntry(req, i, b, F)

SpecHttp == Init /\ [][NextHttp]_vars

\* ---------------------------------------------------------------- claims
\* The last call was createLeadGenAssignment(u, p) for a user u who had an
\* assignment and an existing profile p.
ReassignedLeadGen ==
    /\ ret.op = "createLeadGenAssignment"
    /\ ret.profileId \in Ids(ret.preProfiles)
    /\ \E e \in ret.pre : e.userId = ret.userId

\* C1: every user has at most one lead-gen assignment, and
\* createLeadGenAssignment for a user who already has one changes that
\* assignment's profileId, keeping its id, instead of adding a row.
C1_CreateReplacesAssignment ==
    /\ \A a, b \in leadGenAssignments : a.userId = b.userId => a = b
    /\ ReassignedLeadGen =>
          /\ \E e \in ret.pre :
                /\ e.userId = ret.userId
                /\ [e EXCEPT !.profileId = ret.profileId] \in leadGenAssignments
          /\ Cardinality(leadGenAssignments) = Cardinality(ret.pre)

CreatedSales ==
    /\ ret.op = "createSalesAssignment"
    /\ ret.userId \in UserIds
    /\ ret.profileId \in ProfileIds

\* C3: createSalesAssignment(u, p) ends with a row (u, p) in the store and
\* returns a row with that userId and profileId, also when p is assigned to
\* other sales users and when u holds other profiles.
C3_CreateSalesStoresPair ==
    CreatedSales =>
        /\ \E a \in salesAssignments :
              a.userId = ret.userId /\ a.profileId = ret.profileId
        /\ ret.rows # {}
        /\ \A r \in ret.rows : r.userId = ret.userId /\ r.profileId = ret.profileId

\* The last call was createSalesAssignment(u, p) with (u, p) already stored.
RepeatedSales ==
    /\ ret.op = "createSalesAssignment"
    /\ \E e \in ret.pre : e.userId = ret.userId /\ e.profileId = ret.profileId

C5_ReferentialIntegrity ==
    \A r \in leadGenAssignments \cup salesAssignments \cup targets
              \cup progressUpdates \cup leadEntries :
        r.userId \in UserIds /\ r.profileId \in ProfileIds

\* Some row of the five tables points to profile i.
Referenced(i) == \E k \in 1..5 : RefRows(i)[k] # {}

\* C6: a step that is deleteProfile(id) for a profile that a lead-gen
\* assignment, sales assignment, target, progress update or lead entry
\* points to returns false and changes no table.
C6_DeleteKeepsReferencedProfile ==
    [][ (ret'.op = "deleteProfile" /\ Referenced(ret'.id))
            => (~ret'.ok /\ tables' = tables) ]_vars

\* deleteProfile has just refused a profile that rows of all five tables
\* point to, on the database.
C6_Witness ==
    /\ ret.op = "deleteProfile"
    /\ ret.impl = "db"
    /\ ret.id \in ProfileIds
    /\ ~ret.ok
    /\ \A k \in 1..5 : RefRows(ret.id)[k] # {}

\* C7: deleteProfile(id) on an existing profile that no row of the five
\* tables points to removes the profile and returns true.
C7_DeleteRemovesUnreferencedProfile ==
    (ret.op = "deleteProfile" /\ ret.id \in Ids(ret.pre) /\ ~Referenced(ret.id))
        => (ret.ok /\ ret.id \notin ProfileIds)

\* C8: a route guarded by hasRole(roles) runs its handler only for an
\* authenticated requester whose role is in roles; a request without a
\* session is answered 401 and one with another role 403, and neither changes
\* the store; profiles, assignments and targets change only on a manager's
\* request.
C8_RoleAuthorization ==
    [][ /\ resp'.ranHandler => (resp'.requester # 0 /\ resp'.role \in resp'.guard)
        /\ resp'.requester = 0 => (resp'.status = 401 /\ store' = store)
        /\ (resp'.requester # 0 /\ resp'.role \notin resp'.guard)
              => (resp'.status = 403 /\ store' = store)
        /\ <<profiles, leadGenAssignments, salesAssignments, targets>>'
              # <<profiles, leadGenAssignments, salesAssignments, targets>>
              => resp'.role = "manager"
      ]_vars

\* A sales or lead-generation user asked to delete profile 1, which exists
\* and which nothing references: answered 403, the handler did not run.
C8_Witness ==
    /\ resp.route = "DELETE /api/profiles/:id"
    /\ resp.role \in {"lead_gen", "sales"}
    /\ resp.status = 403
    /\ ~resp.ranHandler
    /\ 1 \in ProfileIds
    /\ ~Referenced(1)

\* C9: a handler that is given a body which does not satisfy the insert
\* schema answers 400 and leaves every row and every id counter as it was.
C9_ValidationRejection ==
    [][ (resp'.ranHandler /\ ~resp'.bodyValid)
            => (resp'.status = 400 /\ store' = store) ]_vars

\* C10: a request during which a database call threw is answered 500.
C10_StorageFailureIs500 == resp.dbThrew => resp.status = 500

\* ------------------------------------------------------------ list routes
\* The list queries take an optional user id and optional first and last
\* days; 0 stands for a parameter that is absent (ids and days start at 1).
\* MemStorage applies every filter that is given.
MemListRows(rows, u, from, to) ==
    {r \in rows : /\ (u # 0 => r.userId = u)
                  /\ (from # 0 => r.date >= from)
                  /\ (to # 0 => r.date <= to)}

\* DatabaseStorage calls query.where(...) once per given filter; each call
\* replaces the query's condition, so the last filter given is the only one
\* applied. An error is caught and [] returned.
DbListRows(rows, u, from, to, F) ==
    IF 1 \in F THEN {}
    ELSE IF to # 0 THEN {r \in rows : r.date <= to}
    ELSE IF from # 0 THEN {r \in rows : r.date >= from}
    ELSE IF u # 0 THEN {r \in rows : r.userId = u}
    ELSE rows

getProgressUpdates(u, from, to, F) ==
    IF impl = "mem" THEN MemListRows(progressUpdates, u, from, to)
    ELSE DbListRows(progressUpdates, u, from, to, F)

getLeadEntries(u, from, to, F) ==
    IF impl = "mem" THEN MemListRows(leadEntries, u, from, to)
    ELSE DbListRows(leadEntries, u, from, to, F)

\* getTargets has the user filter only.
getTargets(u, F) ==
    IF impl = "db" /\ 1 \in F THEN {} ELSE {t \in targets : u # 0 => t.userId = u}

\* The user filter of the three list routes: the requester's own id unless
\* the requester is a manager, who may name a user in the query.
ListUserFilter(req, qUser) == IF Role(req) # "manager" THEN req ELSE qUser

\* The list routes answer with the rows of the storage call, each expanded
\* with its user and its profile.
ListAnswer(route, req, op, u, rows, F) ==
    /\ ret' = Call(op, u, 0, 0, FALSE, TRUE, rows, {})
    /\ UNCHANGED store
    /\ Answer(route, req, AllRolesOf(route), TRUE, F, 200, 200)

GetTargets(req, qUser, F) ==
    LET route == "GET /api/targets"
        g == isAuthenticated(req)
        u == ListUserFilter(req, qUser) IN
    /\ UNCHANGED impl
    /\ IF g # 0 THEN Rejected(route, req, AllRolesOf(route), g)
       ELSE ListAnswer(route, req, "getTargets", u, getTargets(u, F), F)

GetProgressUpdates(req, qUser, from, to, F) ==
    LET route == "GET /api/progress-updates"
        g == isAuthenticated(req)
        u == ListUserFilter(req, qUser) IN
    /\ UNCHANGED impl
    /\ IF g # 0 THEN Rejected(route, req, AllRolesOf(route), g)
       ELSE ListAnswer(route, req, "getProgressUpdates", u,
                       getProgressUpdates(u, from, to, F), F)

GetLeadEntries(req, qUser, from, to, F) ==
    LET route == "GET /api/lead-entries"
        g == isAuthenticated(req)
        u == ListUserFilter(req, qUser) IN
    /\ UNCHANGED impl
    /\ IF g # 0 THEN Rejected(route, req, AllRolesOf(route), g)
       ELSE ListAnswer(route, req, "getLeadEntries", u,
                       getLeadEntries(u, from, to, F), F)

\* Days of the rows and of the queries; 0 in a query: no such parameter.
Days == {1, 2}
QueryFrom == {0, 2}
QueryTo == {0, 1}
QueryUsers == {0, 3}
MaxListRefs == 2

\* Rows for the lists: createTarget, createProgressUpdate and createLeadEntry
\* for either of two users on a given day.
CallCreateListRow ==
    \E d \in Days :
        /\ Attempts < MaxListRefs
        /\ \/ \E u \in {2, 3} :
                /\ createProgressUpdate([SomeProgressUpdate(u, 1) EXCEPT !.date = d],
                                        NoFault)
                /\ UNCHANGED OnlyProgress
           \/ \E u \in {4, 5} :
                /\ createLeadEntry([SomeLeadEntry(u, 1) EXCEPT !.date = d], NoFault)
                /\ UNCHANGED OnlyLeads
           \/ \E u \in {2, 3} :
                /\ createTarget([SomeTarget(u, 1) EXCEPT !.startDate = d], NoFault)
                /\ UNCHANGED OnlyTargets

NextList ==
    \/ CallCreateProfile
    \/ CallCreateListRow
    \/ \E req \in Requesters, q \in QueryUsers, F \in Faults : GetTargets(req, q, F)
    \/ \E req \in Requesters, q \in QueryUsers, from \in QueryFrom, to \in QueryTo,
          F \in Faults :
            GetProgressUpdates(req, q, from, to, F)
    \/ \E req \in Requesters, q \in QueryUsers, from \in QueryFrom, to \in QueryTo,
          F \in Faults :
            GetLeadEntries(req, q, from, to, F)

SpecList == Init /\ [][NextList]_vars

\* C11: the rows a list route sends to a requester who is not a manager all
\* carry the requester's id as userId, whatever the query parameters.
C11_OwnRowsOnly ==
    (/\ resp.route \in {"GET /api/targets", "GET /api/progress-updates",
                        "GET /api/lead-entries"}
     /\ ret.op \in {"getTargets", "getProgressUpdates", "getLeadEntries"}
     /\ resp.status = 200
     /\ resp.role # "manager")
        => \A r \in ret.rows : r.userId = resp.requester

\* ------------------------------------------- the users' own rows by request
\* The manager (1) assigns two profiles to two lead-generation users and two
\* sales users; these post progress updates and lead entries whose bodies
\* name either user and either profile.
OwnLeadGen == {2, 3}
OwnSales == {4, 5}
OwnProfiles == {1, 2}
OwnProgressBodies ==
    {[userId |-> Num(u), profileId |-> Num(p), date |-> DateStr(1),
      jobsFetched |-> Num(2), jobsApplied |-> Num(1)] :
        u \in OwnLeadGen, p \in OwnProfiles}
OwnLeadEntryBodies ==
    {[userId |-> Num(u), profileId |-> Num(p), date |-> DateStr(1),
      newLeads |-> Num(1), clientRejections |-> Num(0), teamRejections |-> Num(0)] :
        u \in OwnSales, p \in OwnProfiles}
\* PATCH bodies: another user, another profile.
OwnLeadEntryPatches ==
    {[k \in {"userId"} |-> u] : u \in OwnSales}
        \cup {[k \in {"profileId"} |-> p] : p \in OwnProfiles}

MaxOwnProfiles == 2
MaxOwnRefs == 3

NextOwn ==
    \/ ProfilesMade < MaxOwnProfiles /\ PostProfiles(1, SomeProfile, NoFault)
    \/ \E b \in AssignmentBodies(OwnLeadGen, OwnProfiles) :
            Attempts < MaxOwnRefs /\ PostLeadGenAssignments(1, b, NoFault)
    \/ \E u \in OwnLeadGen : DeleteLeadGenAssignment(1, u, NoFault)
    \/ \E b \in AssignmentBodies(OwnSales, OwnProfiles) :
            Attempts < MaxOwnRefs /\ PostSalesAssignments(1, b, NoFault)
    \/ \E i \in IdArgs(salesAssignments, "sales") : DeleteSalesAssignment(1, i, NoFault)
    \/ \E req \in OwnLeadGen, b \in OwnProgressBodies, F \in Faults, F2 \in Faults :
            Attempts < MaxOwnRefs /\ PostProgressUpdates(req, b, F, F2)
    \/ \E req \in OwnSales, b \in OwnLeadEntryBodies, F \in Faults, F2 \in Faults :
            Attempts < MaxOwnRefs /\ PostLeadEntries(req, b, F, F2)

SpecOwn == Init /\ [][NextOwn]_vars

\* The same requests and the sales users' PATCH /api/lead-entries/:id.
NextOwnPatch ==
    \/ NextOwn
    \/ \E req \in OwnSales, i \in IdArgs(leadEntries, "leads"),
          b \in OwnLeadEntryPatches, F \in Faults :
            PatchLeadEntry(req, i, b, F)

SpecOwnPatch == Init /\ [][NextOwnPatch]_vars

\* The profiles that exist and that a lead-gen assignment gives to user u.
LeadGenProfilesOf(u) ==
    {a.profileId : a \in {x \in leadGenAssignments : x.userId = u}} \cap ProfileIds

\* C12: a progress update that POST /api/progress-updates creates carries the
\* requester's id and the profile assigned to the requester when the request
\* was made, whatever the body names; a request of a user without an assigned
\* profile is answered 400 and creates nothing.
C12_ProgressUpdateOfRequester ==
    [][ resp'.route = "POST /api/progress-updates" =>
          /\ \A r \in progressUpdates' \ progressUpdates :
                /\ r.userId = resp'.requester
                /\ r.profileId \in LeadGenProfilesOf(resp'.requester)
          /\ LeadGenProfilesOf(resp'.requester) = {} =>
                (resp'.status = 400 /\ store' = store)
      ]_vars

\* User 3, assigned to a profile, posted a body naming user 2 and another
\* profile than the assigned one: the update is stored for user 3 and the
\* assigned profile.
C12_Witness ==
    /\ resp.route = "POST /api/progress-updates"
    /\ resp.requester = 3
    /\ resp.status = 201
    /\ LeadGenProfilesOf(3) = {2}
    /\ \E r \in ret.rows : r \in progressUpdates /\ r.userId = 3 /\ r.profileId = 2
    /\ \E a \in leadGenAssignments : a.userId = 2

\* The profiles that exist and that a sales assignment gives to user u.
SalesProfilesOf(u) ==
    {a.profileId : a \in {x \in salesAssignments : x.userId = u}} \cap ProfileIds

\* C13: a lead entry that POST /api/lead-entries creates carries the
\* requester's id and a profile that a sales assignment gives to the
\* requester when the request is made; a request naming a profile that is
\* not assigned to the requester is answered 400 and creates nothing.
C13_LeadEntryOfRequester ==
    [][ (resp'.route = "POST /api/lead-entries" /\ resp'.ranHandler) =>
          /\ \A e \in leadEntries' \ leadEntries :
                /\ e.userId = resp'.requester
                /\ e.profileId \in SalesProfilesOf(resp'.requester)
          \* answered otherwise than 400: createLeadEntry was called, and the
          \* profile the body named (and the call was given) is an assigned one
          /\ resp'.status # 400 =>
                /\ ret'.op = "createLeadEntry"
                /\ ret'.profileId \in SalesProfilesOf(resp'.requester)
          /\ resp'.status = 400 => store' = store
      ]_vars

\* User 5, who holds a sales assignment for profile 2 and none for profile 1,
\* posted a lead entry: it is stored for user 5 and profile 2.
C13_Witness ==
    /\ resp.route = "POST /api/lead-entries"
    /\ resp.requester = 5
    /\ resp.status = 201
    /\ SalesProfilesOf(5) = {2}
    /\ \E e \in ret.rows : e \in leadEntries /\ e.userId = 5 /\ e.profileId = 2

\* C18: PATCH /api/lead-entries/:id changes only an entry of the requesting
\* sales user, keeps the entry's userId, and leaves it with a profile that is
\* assigned to that user.
C18_PatchOwnLeadEntryOnly ==
    [][ resp'.route = "PATCH /api/lead-entries/:id" =>
          \A e \in leadEntries, e2 \in leadEntries' :
              (e.id = e2.id /\ e # e2) =>
                  /\ e.userId = resp'.requester
                  /\ e2.userId = e.userId
                  /\ e2.profileId \in SalesProfilesOf(resp'.requester)
      ]_vars

\* ------------------------------------------------------- resume download
\* getSalesAssignments(u): the user's rows; DatabaseStorage returns [] when
\* the query throws.
getSalesAssignments(u, F) ==
    IF impl = "db" /\ 1 \in F THEN {} ELSE {a \in salesAssignments : a.userId = u}

\* An authorization that asks for some assignment, to whatever profile.
ResumeAuthorized_AnyAssignment(req, i, F) ==
    IF Role(req) = "manager" THEN {TRUE}
    ELSE IF Role(req) = "lead_gen"
    THEN {\E a \in leadGenAssignments : a.userId = req}
    ELSE IF Role(req) = "sales"
    THEN {\E a \in salesAssignments : a.userId = req}
    ELSE {FALSE}

\* The possible values of `authorized` in GET /api/profiles/:id/resume.
ResumeAuthorized(req, i, F) ==
    IF Role(req) = "manager" THEN {TRUE}
    ELSE IF Role(req) = "lead_gen"
    THEN IF impl = "mem"
         THEN {\E a \in MemGetLeadGenAssignment(req) : a.profileId = i}
         ELSE {\E a \in one : a.profileId = i :
                   one \in DbGetLeadGenAssignment(req, 1 \in F)}
    ELSE IF Role(req) = "sales"
    THEN {\E a \in getSalesAssignments(req, F) : a.profileId = i}
    ELSE {FALSE}

\* F: 1 when the assignment lookup throws, 2 when the profile lookup throws.
\* Status 200 stands for res.send(buffer).
GetResume(req, i, F) ==
    LET route == "GET /api/profiles/:id/resume"
        g == isAuthenticated(req)
        found == getProfile(i, IF 2 \in F THEN {1} ELSE {})
        threw == impl = "db" /\ F # {} IN
    /\ UNCHANGED impl
    /\ IF g # 0 THEN Rejected(route, req, AllRolesOf(route), g)
       ELSE \E authorized \in ResumeAuthorized(req, i, F) :
            IF ~authorized THEN Early(route, req, AllRolesOf(route), 403, TRUE, threw)
            ELSE /\ ret' = Call("getProfile", 0, 0, i, FALSE, found # {}, found, {})
                 /\ UNCHANGED store
                 /\ resp' = Response(route, req, AllRolesOf(route),
                                     IF \E x \in found : ~Falsy(x.resumeBuffer)
                                     THEN 200 ELSE 404,
                                     TRUE, TRUE, threw)

ResumeFaults == IF impl = "mem" THEN {{}} ELSE SUBSET {1, 2}
ResumeRequesters == {0, 1, 2, 3, 4, 5}
MaxResumeRefs == 2

\* The manager makes profiles, uploads a resume for a profile and assigns
\* profiles; every kind of requester asks for the resumes.
NextResume ==
    \/ ProfilesMade < MaxOwnProfiles /\ PostProfiles(1, SomeProfile, NoFault)
    \/ \E i \in OwnProfiles : PatchProfile(1, i, [resumeBuffer |-> Str("pdf")], NoFault)
    \/ \E b \in AssignmentBodies({2}, OwnProfiles) :
            Attempts < MaxResumeRefs /\ PostLeadGenAssignments(1, b, NoFault)
    \/ DeleteLeadGenAssignment(1, 2, NoFault)
    \/ \E b \in AssignmentBodies({4}, OwnProfiles) :
            Attempts < MaxResumeRefs /\ PostSalesAssignments(1, b, NoFault)
    \/ \E i \in IdArgs(salesAssignments, "sales") : DeleteSalesAssignment(1, i, NoFault)
    \/ \E req \in ResumeRequesters, i \in OwnProfiles, F \in ResumeFaults :
            GetResume(req, i, F)

SpecResume == Init /\ [][NextResume]_vars

\* C14: the resume of profile i is sent (status 200) only to a manager, to a
\* lead_gen user whose lead-gen assignment points to i, or to a sales user
\* with a sales assignment for i.
C14_ResumeOnlyToAssigned ==
    [][ (resp'.route = "GET /api/profiles/:id/resume" /\ resp'.status = 200) =>
          \/ resp'.role = "manager"
          \/ /\ resp'.role = "lead_gen"
             /\ \E a \in leadGenAssignments :
                    a.userId = resp'.requester /\ a.profileId = ret'.id
          \/ /\ resp'.role = "sales"
             /\ \E a \in salesAssignments :
                    a.userId = resp'.requester /\ a.profileId = ret'.id
      ]_vars

\* Sales user 4, assigned to profile 2 and not to profile 1, was sent the
\* resume of profile 2.
C14_Witness ==
    /\ resp.route = "GET /api/profiles/:id/resume"
    /\ resp.requester = 4
    /\ resp.status = 200
    /\ ret.id = 2
    /\ SalesProfilesOf(4) = {2}
    /\ \E x \in profiles : x.id = 1 /\ ~Falsy(x.resumeBuffer)

\* ------------------------------------------------- getUserAssignedProfile
\* The target getUserAssignedProfile(u) returns next to profile p, as a set
\* of the possible results. MemStorage sorts the user's targets by endDate,
\* latest first (the sort is stable: equal days keep insertion order), and
\* takes the first; DatabaseStorage takes a target of the user whose
\* profileId is p's.
MemAssignedTarget(u) ==
    LET own == {t \in targets : t.userId = u}
        latest == {t \in own : \A q \in own : q.endDate <= t.endDate} IN
    {First(latest)}

DbAssignedTarget(u, p) == AnyOne({t \in targets : t.userId = u /\ t.profileId = p})

AssignedTarget(u, p) ==
    IF impl = "mem" THEN MemAssignedTarget(u) ELSE DbAssignedTarget(u, p)

\* getUserAssignedProfile(u) for a lead_gen user u: ret holds u, the id of
\* the returned profile (0 when undefined is returned) and, as rows, the
\* returned target.
CallGetUserAssignedProfile(U) ==
    \E u \in U :
    \E assigned \in AssignedProfile(u, NoFault) :
    \E target \in (IF assigned = {} THEN {{}}
                   ELSE AssignedTarget(u, (CHOOSE x \in assigned : TRUE).id)) :
        /\ ret' = Call("getUserAssignedProfile", u,
                       IF assigned = {} THEN 0 ELSE (CHOOSE x \in assigned : TRUE).id,
                       0, FALSE, assigned # {}, target, {})
        /\ UNCHANGED <<impl, resp, store>>

NextAssigned ==
    \/ CallCreateProfile
    \/ CallCreateLeadGenAssignment({2}, {1, 2})
    \/ CallDeleteLeadGenAssignment({2})
    \/ CallCreateTarget({2, 3}, {1, 2})
    \/ CallDeleteTarget
    \/ CallGetUserAssignedProfile({2})

SpecAssigned == Init /\ [][NextAssigned]_vars

\* C15: a target that getUserAssignedProfile(userId) returns is a target of
\* userId and of the returned profile.
C15_TargetOfReturnedPair ==
    ret.op = "getUserAssignedProfile" =>
        \A t \in ret.rows : t.userId = ret.userId /\ t.profileId = ret.profileId

\* --------------------------------------------- concurrent assignment posts
\* DatabaseStorage.createLeadGenAssignment awaits its lookup and then its
\* write: the server handles other requests in between. A request that has
\* made the lookup waits in `inflight` with what the lookup returned.
\* (MemStorage's awaits are on settled promises: a call runs to its end
\* before the next request is taken up.)
MaxInflight == 2
RaceBodies == AssignmentBodies({2}, {1, 2})

BeginPostLeadGenAssignment ==
    \E k \in 1..MaxInflight, b \in RaceBodies :
    \E existing \in DbGetLeadGenAssignment(b.userId.n, FALSE) :
        /\ impl = "db"
        /\ hasRole({"manager"}, 1) = 0
        /\ insertLeadGenAssignmentSchema(b)
        /\ \A c \in inflight : c.k # k
        /\ inflight' = inflight \cup
              {[k |-> k, route |-> "POST /api/lead-gen-assignments",
                userId |-> b.userId.n, profileId |-> b.profileId.n,
                existing |-> existing]}
        /\ UNCHANGED <<impl, tables, nextId, ret, resp>>

FinishPostLeadGenAssignment ==
    \E c \in inflight, w \in WhereObjectOutcomes :
        /\ c.route = "POST /api/lead-gen-assignments"
        /\ DbWriteLeadGenAssignment(c.userId, c.profileId, NoFault, w, c.existing)
        /\ inflight' = inflight \ {c}
        /\ Answer(c.route, 1, {"manager"}, TRUE, NoFault, 201, 201)
        /\ UNCHANGED <<impl, users, profiles, salesAssignments, targets,
                       progressUpdates, leadEntries>>

MaxRaceRefs == 2

NextRace ==
    \/ CallCreateProfile
    \/ \E b \in RaceBodies :
            Attempts < MaxRaceRefs /\ PostLeadGenAssignments(1, b, NoFault)
    \/ Attempts + Cardinality(inflight) < MaxRaceRefs /\ BeginPostLeadGenAssignment
    \/ FinishPostLeadGenAssignment

SpecRace == Init /\ [][NextRace]_vars

\* C16: once the concurrent POST /api/lead-gen-assignments requests have all
\* been answered, no user has more than one lead-gen assignment row.
C16_OneRowAfterConcurrentPosts ==
    inflight = {} =>
        \A u \in UserIds : Cardinality({a \in leadGenAssignments : a.userId = u}) <= 1


\* ------------------------------------------------------ weekly sales report
\* getUsers(role) and getProfiles(); DatabaseStorage's catch returns [] when
\* the query fails.
getUsers(role, failed) ==
    IF impl = "db" /\ failed THEN {} ELSE {u \in users : u.role = role}
getProfiles(failed) == IF impl = "db" /\ failed THEN {} ELSE profiles

RECURSIVE SumApplied(_)
SumApplied(rows) ==
    IF rows = {} THEN 0
    ELSE LET r == CHOOSE x \in rows : TRUE IN r.jobsApplied + SumApplied(rows \ {r})

\* userProfileMap[update.userId][update.profileId] += update.jobsApplied, an
\* entry being made at the first update of the user and of the pair.
userProfileMap(updates) ==
    [u \in {r.userId : r \in updates} |->
        [p \in {r.profileId : r \in {x \in updates : x.userId = u}} |->
            SumApplied({r \in updates : r.userId = u /\ r.profileId = p})]]

\* profileTotals: 0 for each profile, then += jobsApplied per update.
profileTotals(profs, updates) ==
    [p \in Ids(profs) \cup {r.profileId : r \in updates} |->
        SumApplied({r \in updates : r.profileId = p})]

\* The data rows of the main table: for each user a cell per profile with
\* the text of userProfileMap[user.id]?.[profile.id], empty for 0 or none.
createWeeklySalesTable(us, profs, map) ==
    [u \in Ids(us) |->
        [p \in Ids(profs) |->
            LET appliedCount == IF u \in DOMAIN map /\ p \in DOMAIN map[u]
                                THEN Num(map[u][p]) ELSE Str("") IN
            IF Falsy(appliedCount) THEN Str("") ELSE ToText(appliedCount)]]

\* The totals row: for each profile the text of profileTotals[profile.id] || 0.
createTotalsTable(profs, totals) ==
    [p \in Ids(profs) |-> ToText(Num(IF p \in DOMAIN totals THEN totals[p] ELSE 0))]

RECURSIVE SumField(_, _)
SumField(rows, f) ==
    IF rows = {} THEN 0
    ELSE LET r == CHOOSE x \in rows : TRUE IN r[f] + SumField(rows \ {r}, f)

\* format(date, 'EEEE'): day 1 is a Monday.
DayNames == <<"Monday", "Tuesday", "Wednesday", "Thursday", "Friday", "Saturday",
              "Sunday">>
DayName(d) == DayNames[((d - 1) % 7) + 1]
WeekDays == {"Monday", "Tuesday", "Wednesday", "Thursday", "Friday"}

\* dailyLeadCounts[dayOfWeek][entry.profileId] += entry.newLeads, for the
\* entries whose day of the week is one of the five.
dailyLeadCounts(entries) ==
    [day \in WeekDays |->
        [p \in {e.profileId : e \in {x \in entries : DayName(x.date) = day}} |->
            SumField({e \in entries : DayName(e.date) = day /\ e.profileId = p},
                     "newLeads")]]

\* The count of a day and a profile as the table reads it: || 0.
DayCount(counts, day, p) == IF p \in DOMAIN counts[day] THEN counts[day][p] ELSE 0

RECURSIVE DaysReduce(_, _, _)
DaysReduce(counts, days, p) ==
    IF days = {} THEN 0
    ELSE LET day == CHOOSE x \in days : TRUE IN
         DayCount(counts, day, p) + DaysReduce(counts, days \ {day}, p)

\* createSalesCoordinatorTable: a row for each of the five days with the
\* text of the count of each profile, and the Total row, the text of
\* days.reduce over the same counts.
createSalesCoordinatorTable(profs, counts) ==
    [days |-> [day \in WeekDays |->
                  [p \in Ids(profs) |-> ToText(Num(DayCount(counts, day, p)))]],
     total |-> [p \in Ids(profs) |-> ToText(Num(DaysReduce(counts, WeekDays, p)))]]

\* generateWeeklySalesReport: the calls, in order, are getUsers (1),
\* getProfiles (2), getProgressUpdates (3) and getLeadEntries (4); F holds
\* those that fail.
generateWeeklySalesReport(fromDate, toDate, F) ==
    LET leadGenUsers == getUsers("lead_gen", 1 \in F)
        profs == getProfiles(2 \in F)
        updates == getProgressUpdates(0, fromDate, toDate, IF 3 \in F THEN {1} ELSE {})
        entries == getLeadEntries(0, fromDate, toDate, IF 4 \in F THEN {1} ELSE {}) IN
    [coordinator |-> createSalesCoordinatorTable(profs, dailyLeadCounts(entries)),
     cells |-> createWeeklySalesTable(leadGenUsers, profs, userProfileMap(updates)),
     totals |-> createTotalsTable(profs, profileTotals(profs, updates)),
     updates |-> updates]

\* GET /api/reports/weekly-sales: managers only; both dates are required.
GetWeeklySalesReport(req, fromDate, toDate, F) ==
    LET route == "GET /api/reports/weekly-sales"
        g == hasRole({"manager"}, req)
        report == generateWeeklySalesReport(fromDate, toDate, F) IN
    /\ UNCHANGED impl
    /\ IF g # 0 THEN Rejected(route, req, {"manager"}, g)
       ELSE IF fromDate = 0 \/ toDate = 0
       THEN Early(route, req, {"manager"}, 400, TRUE, FALSE)
       ELSE /\ ret' = [op |-> "generateWeeklySalesReport", impl |-> impl,
                       fromDate |-> fromDate, toDate |-> toDate,
                       threw |-> FALSE, ok |-> impl = "mem" \/ F = {},
                       cells |-> report.cells, totals |-> report.totals,
                       coordinator |-> report.coordinator,
                       rows |-> report.updates]
            /\ UNCHANGED store
            /\ resp' = Response(route, req, {"manager"}, 200, TRUE, TRUE, FALSE)

ReportFaults == IF impl = "mem" THEN {{}} ELSE {{}, {1}, {2}, {3}, {4}}
ReportDays == {0, 1, 2}
ReportApplied == {1, 2}
MaxReportRefs == 2

\* The progress updates of the week: either lead generator, profile 1, a day
\* and a number of jobs applied to.
CallCreateReportRow ==
    \E u \in {2, 3}, d \in Days, n \in ReportApplied :
        /\ Attempts < MaxReportRefs
        /\ createProgressUpdate([SomeProgressUpdate(u, 1) EXCEPT !.date = d,
                                                                 !.jobsApplied = n],
                                NoFault)
        /\ UNCHANGED OnlyProgress

NextReport ==
    \/ CallCreateProfile
    \/ CallCreateReportRow
    \/ \E req \in {0, 1, 2}, from \in ReportDays, to \in ReportDays, F \in ReportFaults :
            GetWeeklySalesReport(req, from, to, F)

SpecReport == Init /\ [][NextReport]_vars

\* The number a cell's text shows; an empty cell adds nothing.
CellNumber(text) ==
    IF text.s = "" THEN 0 ELSE CHOOSE n \in 0..9 : DigitText[n + 1] = text.s

RECURSIVE ColumnSum(_, _, _)
ColumnSum(cells, us, p) ==
    IF us = {} THEN 0
    ELSE LET u == CHOOSE x \in us : TRUE IN
         CellNumber(cells[u][p]) + ColumnSum(cells, us \ {u}, p)

\* C17: in a weekly sales report whose storage calls all succeeded, the total
\* of each profile equals the sum of the profile's column over the user rows
\* and equals the sum of jobsApplied of the profile's progress updates dated
\* within [fromDate, toDate], and each user row's cell shows exactly the
\* updates of that user, that profile and those dates.
C17_WeeklyTotalsMatchUpdates ==
    (ret.op = "generateWeeklySalesReport" /\ ret.ok) =>
        \A p \in DOMAIN ret.totals :
            LET InRange == {r \in progressUpdates :
                               /\ r.profileId = p
                               /\ ret.fromDate <= r.date
                               /\ r.date <= ret.toDate} IN
            /\ CellNumber(ret.totals[p]) = ColumnSum(ret.cells, DOMAIN ret.cells, p)
            /\ CellNumber(ret.totals[p]) = SumApplied(InRange)
            /\ \A r \in InRange : r.userId \in DOMAIN ret.cells
            /\ \A u \in DOMAIN ret.cells :
                  CellNumber(ret.cells[u][p]) =
                      SumApplied({r \in InRange : r.userId = u})


\* ------------------------------------------------------ the DELETE answers
\* The row a DELETE request addresses, in the table as the request found it.
DeleteAddressed ==
    IF resp'.route = "DELETE /api/lead-gen-assignments/:userId"
    THEN {a \in leadGenAssignments : a.userId = ret'.userId}
    ELSE IF resp'.route = "DELETE /api/sales-assignments/:id"
    THEN {a \in salesAssignments : a.id = ret'.id}
    ELSE {t \in targets : t.id = ret'.id}

\* C19: a DELETE of a lead generation assignment, a sales assignment or a
\* target whose handler ran answers 204 exactly when the addressed row
\* existed and is removed, and answers 404, the store unchanged, when no
\* such row exists.
C19_DeleteAnswersByExistence ==
    [][ (/\ resp'.route \in {"DELETE /api/lead-gen-assignments/:userId",
                             "DELETE /api/sales-assignments/:id",
                             "DELETE /api/targets/:id"}
         /\ resp'.ranHandler) =>
            /\ resp'.status = 204 <=>
                  /\ DeleteAddressed # {}
                  /\ DeleteAddressed \cap
                        (leadGenAssignments' \cup salesAssignments' \cup targets') = {}
            /\ DeleteAddressed = {} => (resp'.status = 404 /\ store' = store)
      ]_vars


\* ------------------------------------------------------------ registration
getUserByUsername(username, failed) ==
    IF impl = "mem" THEN First({u \in users : u.username = username})
    ELSE IF failed THEN {}
    ELSE {u \in users : u.username = username}

\* createUser. MemStorage takes the next id and sets the Map entry.
\* DatabaseStorage inserts: the statement throws on a failure, and on a
\* username the table holds (users.username is unique), the serial's value
\* then being used up.
createUser(username, password, role, F) ==
    LET id == nextId["users"]
        row == [id |-> id, username |-> username, role |-> role,
                password |-> password]
        failed == impl = "db" /\ 1 \in F
        taken == impl = "db" /\ \E u \in users : u.username = username
        threw == failed \/ taken IN
    /\ users' = IF threw THEN users ELSE users \cup {row}
    /\ nextId' = IF failed THEN nextId ELSE Bump("users")
    /\ ret' = Call("createUser", 0, 0, id, threw, ~threw,
                   IF threw THEN {} ELSE {row}, users)

RegisterRoute == "POST /api/register"
RegisterFields == {"username", "password", "name", "email", "role"}

\* POST /api/register up to the await of hashPassword: the required fields,
\* then the lookup of the username. A request that passed both waits in
\* `inflight` for its hash; `failed` tells that the lookup's catch ran.
BeginRegister(k, body, F) ==
    LET existing == getUserByUsername(body.username.s, 1 \in F) IN
    /\ UNCHANGED impl
    /\ IF \E f \in RegisterFields : Falsy(body[f])
       THEN Early(RegisterRoute, 0, AllRoles, 400, FALSE, FALSE)
       ELSE IF existing # {}
       THEN /\ ret' = Call("getUserByUsername", 0, 0, 0, FALSE, TRUE, existing, users)
            /\ resp' = Response(RegisterRoute, 0, AllRoles, 400, TRUE, TRUE, FALSE)
            /\ UNCHANGED store
       ELSE /\ \A c \in inflight : c.k # k
            /\ inflight' = inflight \cup
                  {[k |-> k, route |-> RegisterRoute, username |-> body.username.s,
                    password |-> body.password.s, role |-> body.role.s,
                    stage |-> "hashing", hashedPassword |-> PlainText(""),
                    failed |-> impl = "db" /\ 1 \in F]}
            /\ UNCHANGED <<tables, nextId, ret, resp>>

\* randomBytes gives the salt.
Salts == {1, 2}

\* scrypt has run on the thread pool: the handler goes on to createUser.
HashedRegister ==
    \E c \in inflight, salt \in Salts :
        /\ c.route = RegisterRoute
        /\ c.stage = "hashing"
        /\ inflight' = (inflight \ {c}) \cup
              {[c EXCEPT !.stage = "hashed",
                         !.hashedPassword = hashPassword(c.password, salt)]}
        /\ UNCHANGED <<impl, tables, nextId, ret, resp>>

\* createUser and the answer: 201 with the user, 500 from the error handler
\* when createUser threw.
FinishRegister(F) ==
    \E c \in inflight :
        /\ c.route = RegisterRoute
        /\ c.stage = "hashed"
        /\ createUser(c.username, c.hashedPassword, c.role, F)
        /\ inflight' = inflight \ {c}
        /\ resp' = Response(RegisterRoute, 0, AllRoles,
                            IF ret'.threw THEN 500 ELSE 201, TRUE, TRUE,
                            impl = "db" /\ 1 \in F)
        /\ UNCHANGED <<impl, profiles, leadGenAssignments, salesAssignments,
                       targets, progressUpdates, leadEntries>>

RegisterBody(username, password) ==
    [username |-> Str(username), password |-> password, name |-> Str("name"),
     email |-> Str("mail"), role |-> Str("sales")]
RegisterBodies ==
    {RegisterBody(n, Str("pw")) : n \in {"leadgen1", "alice", "bob"}}
        \cup {RegisterBody("alice", Undef)}

MaxRegistrations == 2
Registrations == (nextId["users"] - 6) + Cardinality(inflight)

NextRegister ==
    \/ \E k \in 1..MaxInflight, b \in RegisterBodies, F \in Faults :
            Registrations < MaxRegistrations /\ BeginRegister(k, b, F)
    \/ HashedRegister
    \/ \E F \in Faults : FinishRegister(F)

SpecRegister == Init /\ [][NextRegister]_vars

\* C20: no two users have the same username in any state; a registration
\* whose username exists (the lookup having run) goes no further than the
\* check, and a registration answered 400 creates no user.
C20_UsernamesUnique ==
    [][ /\ \A a, b \in users' : a.username = b.username => a.id = b.id
        /\ \A c \in inflight' \ inflight :
              (c.route = RegisterRoute /\ c.stage = "hashing" /\ ~c.failed)
                  => c.username \notin {u.username : u \in users}
        /\ (resp'.route = RegisterRoute /\ resp'.status = 400) => users' = users
      ]_vars


\* -------------------------------------------------------------------- login
\* The LocalStrategy's verify function over a users table: the user that
\* done() is given, none when the username is unknown or the password is
\* not accepted.
VerifyIn(us, username, password, failed) ==
    LET found == IF impl = "mem" THEN First({u \in us : u.username = username})
                 ELSE IF failed THEN {}
                 ELSE {u \in us : u.username = username} IN
    {u \in found : comparePasswords(password, u.password)}

\* POST /api/login: 200 with the user that verify gives, else 401.
PostLogin(username, password, F) ==
    LET user == VerifyIn(users, username, password, 1 \in F) IN
    /\ ret' = [op |-> "login", impl |-> impl, username |-> username,
               supplied |-> password, threw |-> FALSE, ok |-> user # {},
               rows |-> user]
    /\ resp' = Response("POST /api/login", 0, AllRoles,
                        IF user # {} THEN 200 ELSE 401, TRUE, TRUE, FALSE)
    /\ UNCHANGED <<impl, store>>

Passwords == {"pw", "pw2", DefaultPassword}
LoginNames == {"leadgen1", "alice"}
LoginBodies == {RegisterBody("alice", Str(p)) : p \in {"pw", "pw2"}}
MaxLoginUsers == 2

NextLogin ==
    \/ \E k \in 1..MaxInflight, b \in LoginBodies, F \in Faults :
            Registrations < MaxLoginUsers /\ BeginRegister(k, b, F)
    \/ HashedRegister
    \/ \E F \in Faults : FinishRegister(F)
    \/ \E n \in LoginNames, p \in Passwords, F \in Faults : PostLogin(n, p, F)

SpecLogin == Init /\ [][NextLogin]_vars

\* C21: the login's password check accepts, for each default user, the
\* password of the default list and, for a user that a registration has just
\* created alone under its username, exactly the password of that
\* registration request.
C21_CreationPasswordLogsIn ==
    [][ /\ \A u \in users' :
              u.id <= 5 =>
                  VerifyIn(users', u.username, DefaultPassword, FALSE) = {u}
        /\ \A c \in inflight \ inflight', u \in users' \ users :
              (\A v \in users : v.username # u.username) =>
                  \A p \in Passwords :
                      (VerifyIn(users', u.username, p, FALSE) = {u}) <=> p = c.password
      ]_vars


\* ------------------------------------------------- the goals of the targets
\* Bodies of POST /api/targets as a client other than the form may send
\* them: goals that are positive, zero or negative, a range in either order.
GoalValues == {-1, 0, 2}
GoalBodies ==
    {[TargetBody(2, 1, Num(f)) EXCEPT !.jobsToApply = Num(a),
                                      !.startDate = DateStr(s),
                                      !.endDate = DateStr(e)] :
        f \in GoalValues, a \in {0, 1}, s \in Days, e \in Days}
GoalPatches ==
    {[jobsToFetch |-> Num(f), jobsToApply |-> Num(a)] : f \in GoalValues, a \in {0, 1}}
MaxGoalRefs == 2

NextTargets ==
    \/ CallCreateProfile
    \/ \E req \in {1, 2} :
       \E b \in Sent({"manager"}, req, GoalBodies), F \in Sent({"manager"}, req, Faults) :
            Attempts < MaxGoalRefs /\ PostTargets(req, b, F)
    \/ \E req \in {1, 2} :
       \E i \in Sent({"manager"}, req, IdArgs(targets, "targets")),
          b \in Sent({"manager"}, req, GoalPatches),
          F \in Sent({"manager"}, req, Faults) :
            PatchTarget(req, i, b, F)

SpecTargets == Init /\ [][NextTargets]_vars

\* C23: every stored target has jobsToFetch > 0 and jobsToApply > 0.
C23_GoalsPositive ==
    \A t \in targets : t.jobsToFetch > 0 /\ t.jobsToApply > 0

\* C24: every stored target's endDate is not before its startDate.
C24_DateRangeWellFormed ==
    \A t \in targets : t.startDate <= t.endDate


\* ------------------------------------------- the counts of progress updates
\* Bodies of POST /api/progress-updates as a client other than the form may
\* send them.
CountBodies ==
    {[userId |-> Undef, profileId |-> Undef, date |-> DateStr(1),
      jobsFetched |-> Num(f), jobsApplied |-> Num(a)] :
        f \in {-1, 1}, a \in {-1, 0, 2}}
MaxCountRefs == 3

NextCounts ==
    \/ CallCreateProfile
    \/ \E b \in AssignmentBodies({2}, {1}), F \in Faults :
            Attempts < MaxCountRefs /\ PostLeadGenAssignments(1, b, F)
    \/ \E req \in {1, 2} :
       \E b \in Sent({"lead_gen"}, req, CountBodies),
          F \in Sent({"lead_gen"}, req, Faults), F2 \in Sent({"lead_gen"}, req, Faults) :
            Attempts < MaxCountRefs /\ PostProgressUpdates(req, b, F, F2)

SpecCounts == Init /\ [][NextCounts]_vars

\* C25: every stored progress update has 0 <= jobsApplied <= jobsFetched.
C25_AppliedWithinFetched ==
    \A r \in progressUpdates : 0 <= r.jobsApplied /\ r.jobsApplied <= r.jobsFetched


\* ------------------------------------------------- team performance report
\* Math.round(applied / target * 100): the nearest integer, a half going up.
Completion(applied, target) ==
    IF target > 0 THEN (200 * applied + target) \div (2 * target) ELSE 0

\* The fields of a result row that the CSV prints, the user's id standing
\* for the user's name; a field the row does not have is undefined.
\* MemStorage.getTeamPerformanceData: a row for each lead_gen user for whom
\* getUserAssignedProfile gives a profile, with that call's target and the
\* sums over getProgressUpdates(user.id, fromDate, toDate).
MemTeamPerformanceData(fromDate, toDate) ==
    { LET profile == CHOOSE x \in profiles :
                        \E a \in MemGetLeadGenAssignment(u.id) : x.id = a.profileId
          target == CHOOSE t \in MemAssignedTarget(u.id) : TRUE
          updates == MemListRows(progressUpdates, u.id, fromDate, toDate)
          targetJobs == IF target = {} THEN 0
                        ELSE (CHOOSE t \in target : TRUE).jobsToApply IN
      [userId |-> u.id,
       profile |-> profile.name,
       targetJobsToFetch |->
           Num(IF target = {} THEN 0 ELSE (CHOOSE t \in target : TRUE).jobsToFetch),
       targetJobsToApply |-> Num(targetJobs),
       jobsFetched |-> Num(SumField(updates, "jobsFetched")),
       jobsApplied |-> Num(SumField(updates, "jobsApplied")),
       completion |-> Num(Completion(SumField(updates, "jobsApplied"), targetJobs))] :
      u \in {x \in users :
                /\ x.role = "lead_gen"
                /\ \E a \in MemGetLeadGenAssignment(x.id) : a.profileId \in ProfileIds} }

\* DatabaseStorage.getTeamPerformanceData: a row for each userId among the
\* progress updates and the lead entries of the range, with the sums of its
\* progress updates; the rows have no profile, target or completion.
DbTeamPerformanceData(fromDate, toDate, F) ==
    LET progressData == DbListRows(progressUpdates, 0, fromDate, toDate, F)
        leadData == DbListRows(leadEntries, 0, fromDate, toDate, {}) IN
    { [userId |-> u,
       profile |-> Undef,
       targetJobsToFetch |-> Undef,
       targetJobsToApply |-> Undef,
       jobsFetched |-> Num(SumField({r \in progressData : r.userId = u}, "jobsFetched")),
       jobsApplied |-> Num(SumField({r \in progressData : r.userId = u}, "jobsApplied")),
       completion |-> Undef] :
      u \in {r.userId : r \in progressData \cup leadData} }

getTeamPerformanceData(fromDate, toDate, F) ==
    IF impl = "mem" THEN MemTeamPerformanceData(fromDate, toDate)
    ELSE DbTeamPerformanceData(fromDate, toDate, F)

\* GET /api/reports/team-performance: managers only; both dates are required;
\* the CSV has a line for each row of getTeamPerformanceData.
GetTeamPerformance(req, fromDate, toDate, F) ==
    LET route == "GET /api/reports/team-performance"
        g == hasRole({"manager"}, req) IN
    /\ UNCHANGED impl
    /\ IF g # 0 THEN Rejected(route, req, {"manager"}, g)
       ELSE IF fromDate = 0 \/ toDate = 0
       THEN Early(route, req, {"manager"}, 400, TRUE, FALSE)
       ELSE /\ ret' = [op |-> "getTeamPerformanceData", impl |-> impl,
                       fromDate |-> fromDate, toDate |-> toDate,
                       threw |-> FALSE, ok |-> impl = "mem" \/ F = {},
                       rows |-> getTeamPerformanceData(fromDate, toDate, F)]
            /\ UNCHANGED store
            /\ resp' = Response(route, req, {"manager"}, 200, TRUE, TRUE, FALSE)

TeamProgressBodies ==
    {[userId |-> Undef, profileId |-> Undef, date |-> DateStr(d),
      jobsFetched |-> Num(2), jobsApplied |-> Num(1)] : d \in Days}
MaxTeamRefs == 3

NextTeam ==
    \/ CallCreateProfile
    \/ \E b \in AssignmentBodies({2}, {1}) :
            Attempts < MaxTeamRefs /\ PostLeadGenAssignments(1, b, NoFault)
    \/ Attempts < MaxTeamRefs /\ PostTargets(1, TargetBody(2, 1, Num(2)), NoFault)
    \/ \E b \in TeamProgressBodies :
            Attempts < MaxTeamRefs /\ PostProgressUpdates(2, b, NoFault, NoFault)
    \/ \E req \in {1, 2}, from \in ReportDays, to \in ReportDays, F \in Faults :
            GetTeamPerformance(req, from, to, F)

SpecTeam == Init /\ [][NextTeam]_vars

\* C26: what getTeamPerformanceData returned (no storage call having failed)
\* is what MemStorage's and what DatabaseStorage's method compute from the
\* stored rows and the range: one row for each lead_gen user with an
\* assigned profile, with the sums of the user's progress updates dated
\* within [fromDate, toDate].
C26_TeamPerformanceAgrees ==
    (ret.op = "getTeamPerformanceData" /\ ret.ok) =>
        /\ ret.rows = MemTeamPerformanceData(ret.fromDate, ret.toDate)
        /\ ret.rows = DbTeamPerformanceData(ret.fromDate, ret.toDate, {})
        /\ {r.userId : r \in ret.rows} =
              {u.id : u \in {x \in users :
                                /\ x.role = "lead_gen"
                                /\ \E a \in leadGenAssignments :
                                      a.userId = x.id /\ a.profileId \in ProfileIds}}
        /\ \A r \in ret.rows :
              LET InRange == {x \in progressUpdates :
                                 /\ x.userId = r.userId
                                 /\ ret.fromDate <= x.date
                                 /\ x.date <= ret.toDate} IN
              /\ r.jobsFetched = Num(SumField(InRange, "jobsFetched"))
              /\ r.jobsApplied = Num(SumField(InRange, "jobsApplied"))


\* ------------------------------------------- the sales coordinator's table
\* Lead entries of a Friday (5) and a Saturday (6).
CoordinatorDays == {5, 6}
MaxCoordinatorRefs == 2

CallCreateCoordinatorRow ==
    \E d \in CoordinatorDays, n \in {1, 2} :
        /\ Attempts < MaxCoordinatorRefs
        /\ createLeadEntry([SomeLeadEntry(4, 1) EXCEPT !.date = d, !.newLeads = n],
                           NoFault)
        /\ UNCHANGED OnlyLeads

NextCoordinator ==
    \/ CallCreateProfile
    \/ CallCreateCoordinatorRow
    \/ \E req \in {0, 1, 2}, from \in {0} \cup CoordinatorDays,
          to \in {0} \cup CoordinatorDays, F \in ReportFaults :
            GetWeeklySalesReport(req, from, to, F)

SpecCoordinator == Init /\ [][NextCoordinator]_vars

\* C27: in a weekly report whose storage calls all succeeded, the Total row
\* of the sales coordinator's table shows for each profile the sum of
\* newLeads of the profile's lead entries dated within [fromDate, toDate],
\* which is also the sum of the profile's cells over the day rows.
C27_CoordinatorTotals ==
    (ret.op = "generateWeeklySalesReport" /\ ret.ok) =>
        \A p \in DOMAIN ret.coordinator.total :
            LET InRange == {e \in leadEntries :
                               /\ e.profileId = p
                               /\ ret.fromDate <= e.date
                               /\ e.date <= ret.toDate}
                DayCells == [day \in WeekDays |->
                                [q \in {p} |-> CellNumber(ret.coordinator.days[day][p])]] IN
            /\ CellNumber(ret.coordinator.total[p]) = SumField(InRange, "newLeads")
            /\ CellNumber(ret.coordinator.total[p]) = DaysReduce(DayCells, WeekDays, p)


\* --------------------------------------------------- initializeDefaultUsers
\* The defaultUsers list, in its order, of the storage in use.
DefaultList == DefaultUsers(IF impl = "mem" THEN "manager" ELSE "manager1")
DefaultAt(pos) == CHOOSE x \in DefaultList : x.id = pos
InitializeRoute == "initializeDefaultUsers"

\* A run of initializeDefaultUsers waits in `inflight` at each await, with
\* its place in the list, what its lookup found, and where it goes on:
\* "create" after the lookup, "next" after createUser. MemStorage's awaits
\* are on settled promises, so its runs go on in the order they went to
\* wait (rank 1 first); DatabaseStorage's go on as the database answers.
MayGoOn(c) == impl = "db" \/ c.rank = 1
Waiting(c, others) == IF impl = "db" THEN 0 ELSE Cardinality(others) + 1
Requeued(others) ==
    {[d EXCEPT !.rank = IF impl = "db" THEN 0 ELSE @ - 1] : d \in others}

\* The lookup of the user at pos, up to its await.
LookedUp(c, pos, others) ==
    [c EXCEPT !.pos = pos, !.stage = "create",
              !.existing = getUserByUsername(DefaultAt(pos).username, FALSE) # {},
              !.rank = Waiting(c, others)]

\* The state after the constructor: no user yet, the unawaited run waiting
\* for its first lookup, which found nobody. A database starts without
\* users and without a run.
InitDefaults ==
    /\ impl \in {"mem", "db"}
    /\ users = {}
    /\ profiles = IF impl = "mem" THEN DefaultProfiles ELSE {}
    /\ nextId = [t \in TableNames |->
                    IF impl = "mem" /\ t = "profiles" THEN 6 ELSE 1]
    /\ leadGenAssignments = {}
    /\ salesAssignments = {}
    /\ targets = {}
    /\ progressUpdates = {}
    /\ leadEntries = {}
    /\ ret = NoCall
    /\ resp = NoResp
    /\ inflight = IF impl = "mem"
                  THEN {[k |-> 1, route |-> InitializeRoute, pos |-> 1,
                         stage |-> "create", existing |-> FALSE, rank |-> 1]}
                  ELSE {}

\* An explicit call: it runs up to the await of its first lookup.
BeginInitializeDefaultUsers(k) ==
    /\ \A c \in inflight : c.k # k
    /\ inflight' = inflight \cup
          {LookedUp([k |-> k, route |-> InitializeRoute, pos |-> 1, stage |-> "create",
                     existing |-> FALSE, rank |-> 0], 1, inflight)}
    /\ ret' = Call("getUserByUsername", 0, 0, 0, FALSE, TRUE, {}, users)
    /\ UNCHANGED <<impl, tables, nextId, resp>>

\* A run goes on after a lookup that found the user, or after createUser:
\* the next user's lookup, or the end of the list.
ContinueInitializeDefaultUsers ==
    \E c \in inflight :
        LET others == Requeued(inflight \ {c}) IN
        /\ c.route = InitializeRoute
        /\ MayGoOn(c)
        /\ c.stage = "next" \/ c.existing
        /\ inflight' = IF c.pos = Cardinality(DefaultList) THEN others
                       ELSE others \cup {LookedUp(c, c.pos + 1, others)}
        /\ ret' = Call("getUserByUsername", 0, 0, 0, FALSE, TRUE, {}, users)
        /\ UNCHANGED <<impl, tables, nextId, resp>>

\* A run goes on after a lookup that found nobody: createUser, whose error
\* DatabaseStorage's loop catches.
CreateDefaultUser ==
    \E c \in inflight :
        LET others == Requeued(inflight \ {c})
            user == DefaultAt(c.pos) IN
        /\ c.route = InitializeRoute
        /\ MayGoOn(c)
        /\ c.stage = "create" /\ ~c.existing
        /\ createUser(user.username, user.password, user.role, NoFault)
        /\ inflight' = others \cup
              {[c EXCEPT !.stage = "next", !.rank = Waiting(c, others)]}
        /\ UNCHANGED <<impl, profiles, leadGenAssignments, salesAssignments,
                       targets, progressUpdates, leadEntries, resp>>

MaxExtraUsers == 2

NextDefaults ==
    \/ \E k \in 1..MaxInflight :
            /\ nextId["users"] <= Cardinality(DefaultList) + MaxExtraUsers
            /\ BeginInitializeDefaultUsers(k)
    \/ ContinueInitializeDefaultUsers
    \/ CreateDefaultUser

SpecDefaults == InitDefaults /\ [][NextDefaults]_vars

\* C22: no step of initializeDefaultUsers changes or removes a user that
\* exists, and when no run is left each default username exists exactly
\* once.
C22_DefaultUsersOnce ==
    [][ /\ \A u \in users : u \in users'
        /\ inflight' = {} =>
              \A d \in DefaultList :
                  Cardinality({u \in users' : u.username = d.username}) = 1
      ]_vars

====
